---- MODULE Spec2Model ----
(***************************************************************************)
(* NVMe-lite oracle: the run engine (runner.rs), the device model          *)
(* (model.rs), the completion scheduler with its splitmix64 generator      *)
(* (scheduler.rs), the event log and the schedule record (logging.rs).     *)
(*                                                                         *)
(* Machine integers are kept at their width where the code relies on it:   *)
(* a u64 is a tuple of 8 bytes and a u32 a tuple of 4 bytes, least         *)
(* significant byte first.  Counters that the code only increments by one  *)
(* per command (cmd_id, fence_id, step_count, ...) are plain integers.     *)
(* usize is taken to be 64 bits wide.                                      *)
(***************************************************************************)
EXTENDS Integers, Sequences, FiniteSets, TLC

VARIABLES
    seed,             \* the Seed handed to execute_run: [seed_id, commands]
    config,           \* the RunConfig handed to execute_run
    model,            \* NvmeLiteModel
    scheduler,        \* Scheduler: [policy, bound_k, rng, decisions]
    logger,           \* Logger: [buffer]
    schedule,         \* SerializedSchedule: [..., steps]
    next_cmd,         \* runner.rs:83
    pending_peak,     \* runner.rs:84, the engine's local peak
    step_count,       \* runner.rs:102
    fault_injected,   \* runner.rs:109
    stop_submits,     \* runner.rs:110
    batch_remaining,  \* runner.rs:113
    pc,               \* position of execute_run: "loop", "end", "done"
    finished,         \* what the finished runs wrote: <<[seed, config, log, steps]>>
    call,             \* the arguments of a function applied on its own
    ret               \* what that function returned

vars == <<seed, config, model, scheduler, logger, schedule, next_cmd, pending_peak,
          step_count, fault_injected, stop_submits, batch_remaining, pc, finished,
          call, ret>>

\* ------------------------------------------------------------------ bounds

MaxCmds == 3
MaxScheduleSeed == 3
MaxRuns == 3
MaxSubmits == 3
MaxScenarioSeed == 9
MaxRangeSubmits == 2

\* ------------------------------------------------- program constants

STORAGE_SIZE == 1024
BATCH_SIZE == 4

\* Option<T>: None, or Some(x) with the value x in Some(x)[1]
None == <<>>
Some(x) == <<x>>

\* BoundK and SubmitWindow: Finite(n) with n in Finite(n)[2], or Infinite
Finite(n) == <<"Finite", n>>
Infinite == <<"Infinite">>

\* ------------------------------------------- fixed-width arithmetic

Pow2(n) == CASE n = 0 -> 1 [] n = 1 -> 2 [] n = 2 -> 4 [] n = 3 -> 8 [] n = 4 -> 16
             [] n = 5 -> 32 [] n = 6 -> 64 [] n = 7 -> 128 [] n = 8 -> 256

\* The function f on 1..n as the tuple <<f[1], ..., f[n]>>
Bytes(f) == f \o <<>>

\* The value n (0 <= n < 2^31) as a little-endian tuple of `limbs` bytes.
FromNat(n, limbs) ==
    Bytes([i \in 1..limbs |-> CASE i = 1 -> n % 256
                                [] i = 2 -> (n \div 256) % 256
                                [] i = 3 -> (n \div 65536) % 256
                                [] i = 4 -> (n \div 16777216) % 256
                                [] OTHER -> 0])

U64(n) == FromNat(n, 8)
U32(n) == FromNat(n, 4)

RECURSIVE AddLimbs(_, _, _, _)
AddLimbs(a, b, i, carry) ==
    IF i > Len(a) THEN <<>>
    ELSE LET s == a[i] + b[i] + carry
         IN  <<s % 256>> \o AddLimbs(a, b, i + 1, s \div 256)

RECURSIVE CarryOut(_, _, _, _)
CarryOut(a, b, i, carry) ==
    IF i > Len(a) THEN carry
    ELSE CarryOut(a, b, i + 1, (a[i] + b[i] + carry) \div 256)

\* a.wrapping_add(b) on tuples of equal length
wrapping_add(a, b) == AddLimbs(a, b, 1, 0)

\* TRUE iff a + b does not fit the width of a and b
add_overflows(a, b) == CarryOut(a, b, 1, 0) > 0

RECURSIVE Column(_, _, _, _)
Column(a, b, k, i) ==
    IF i > k THEN 0 ELSE a[i] * b[k + 1 - i] + Column(a, b, k, i + 1)

RECURSIVE MulLimbs(_, _, _, _)
MulLimbs(a, b, k, carry) ==
    IF k > Len(a) THEN <<>>
    ELSE LET s == Column(a, b, k, 1) + carry
         IN  <<s % 256>> \o MulLimbs(a, b, k + 1, s \div 256)

\* a.wrapping_mul(b) on tuples of equal length
wrapping_mul(a, b) == MulLimbs(a, b, 1, 0)

RECURSIVE XorBits(_, _, _)
XorBits(x, y, n) ==
    IF n = 0 THEN 0
    ELSE ((x + y) % 2) + 2 * XorBits(x \div 2, y \div 2, n - 1)

\* x ^ y for 4-bit x and y, tabulated: XorNibble[x + 1][y + 1]
XorNibble == Bytes([x \in 1..16 |-> Bytes([y \in 1..16 |-> XorBits(x - 1, y - 1, 4)])])

XorByte(x, y) ==
    16 * XorNibble[(x \div 16) + 1][(y \div 16) + 1] + XorNibble[(x % 16) + 1][(y % 16) + 1]

\* a ^ b
Xor(a, b) == Bytes([i \in 1..Len(a) |-> XorByte(a[i], b[i])])

\* a >> s  (0 < s < 64)
Shr(a, s) ==
    LET q == s \div 8
        r == s % 8
        at(j) == IF j <= Len(a) THEN a[j] ELSE 0
    IN  Bytes([i \in 1..Len(a) |->
                 (at(i + q) \div Pow2(r)) + (at(i + q + 1) % Pow2(r)) * Pow2(8 - r)])

RECURSIVE ModLimbs(_, _, _, _)
ModLimbs(a, len, i, acc) ==
    IF i = 0 THEN acc ELSE ModLimbs(a, len, i - 1, (acc * 256 + a[i]) % len)

\* a % len for a small len
Mod(a, len) == ModLimbs(a, len, Len(a), 0)

RECURSIVE LessFrom(_, _, _)
LessFrom(a, b, i) ==
    IF i = 0 THEN FALSE
    ELSE IF a[i] # b[i] THEN a[i] < b[i]
    ELSE LessFrom(a, b, i - 1)

\* a < b on tuples of equal length
Less(a, b) == LessFrom(a, b, Len(a))

\* The integer a tuple stands for, for values below 2^24.
ToNat(a) == a[1] + 256 * a[2] + 65536 * a[3]

\* ------------------------------------------------------- SplitMix64

GOLDEN_GAMMA == <<21, 124, 74, 127, 185, 121, 55, 158>>    \* 0x9E3779B97F4A7C15
MIX_1 == <<185, 229, 228, 28, 109, 71, 88, 191>>           \* 0xBF58476D1CE4E5B9
MIX_2 == <<235, 17, 49, 19, 187, 73, 208, 148>>            \* 0x94D049BB133111EB

seed_from_u64(s) == [state |-> s]

\* The one element of a singleton set.  {e(x) : x \in {v}} evaluates v once, which
\* keeps the evaluation of a chain of steps linear in its length.
The(S) == CHOOSE x \in S : TRUE

\* The value next_u64 returns for the incremented state z:
\*   z1 = (z ^ (z >> 30)) * MIX_1;  z2 = (z1 ^ (z1 >> 27)) * MIX_2;  z2 ^ (z2 >> 31)
mix64(z) ==
    The({Xor(z2, Shr(z2, 31)) :
           z2 \in {wrapping_mul(x2, MIX_2) :
             x2 \in {Xor(z1, Shr(z1, 27)) :
               z1 \in {wrapping_mul(x1, MIX_1) :
                 x1 \in {Xor(z0, Shr(z0, 30)) : z0 \in {z}}}}}})

\* mix64 tabulated on the generator states that the first draws from the schedule
\* seeds 0..MaxScheduleSeed reach (evaluated once); every other state is computed.
RECURSIVE StatesFrom(_, _)
StatesFrom(state, n) ==
    IF n = 0 THEN {}
    ELSE UNION {{z} \cup StatesFrom(z, n - 1) : z \in {wrapping_add(state, GOLDEN_GAMMA)}}

Mix64Table ==
    [z \in UNION {StatesFrom(U64(s), 4 * MaxCmds + 4) : s \in 0..MaxScheduleSeed} |-> mix64(z)]
        @@ <<>>

\* The generator after the draw, and the value drawn.
next_u64(rng) ==
    The({[rng |-> [state |-> state],
          value |-> IF state \in DOMAIN Mix64Table THEN Mix64Table[state] ELSE mix64(state)] :
            state \in {wrapping_add(rng.state, GOLDEN_GAMMA)}})

rng_next_bit(rng) ==
    LET d == next_u64(rng)
    IN  [rng |-> d.rng, value |-> d.value[1] % 2]

gen_index(rng, len) ==
    The({[rng |-> d.rng, value |-> Mod(d.value, len)] : d \in {next_u64(rng)}})

\* ----------------------------------------------------- seed.rs: Command

WRITE(lba, len, pattern) == [type |-> "WRITE", lba |-> lba, len |-> len, pattern |-> pattern]
READ(lba, len) == [type |-> "READ", lba |-> lba, len |-> len]
FENCE == [type |-> "FENCE"]
WRITE_VISIBLE(lba, len) == [type |-> "WRITE_VISIBLE", lba |-> lba, len |-> len]

type_name(command) == command.type

\* ------------------------------------------------ model.rs: NvmeLiteModel

\* A storage vector (Vec<u32> of STORAGE_SIZE words, all zero at first) is kept as
\* the function from the indices of its non-zero words to those words.
ZERO32 == U32(0)

Word(storage, i) == IF i \in DOMAIN storage THEN storage[i] ELSE ZERO32

\* storage with storage[i] = from[i] for every i of range (from is a function on
\* range), the rest as it was
Store(storage, range, from) ==
    LET keep == (DOMAIN storage \ range) \cup {i \in range : from[i] # ZERO32}
    IN  [i \in keep |-> IF i \in range THEN from[i] ELSE storage[i]]

NvmeLiteModel_new ==
    [host_storage |-> <<>>,
     dev_storage |-> <<>>,
     submitted |-> <<>>,
     pending |-> <<>>,
     completed |-> <<>>,
     next_cmd_id |-> 0,
     current_fence_id |-> 0,
     fence_tracking |-> <<>>,
     pending_peak |-> 0,
     phase_tag |-> TRUE,
     had_reset |-> FALSE,
     commands_lost_to_reset |-> 0]

pending_count(m) == Cardinality(DOMAIN m.pending)

Max(a, b) == IF a > b THEN a ELSE b
Min(a, b) == IF a < b THEN a ELSE b

\* f with f[k] = v added or replaced
Insert(f, k, v) == [x \in DOMAIN f \cup {k} |-> IF x = k THEN v ELSE f[x]]

\* f without the key k
Remove(f, k) == [x \in DOMAIN f \ {k} |-> f[x]]

\* Faulty variant of submit: next_cmd_id is not advanced.
submit_without_increment(m, command) ==
    LET cmd_id == m.next_cmd_id
        is_fence == command.type = "FENCE"
        fid == m.current_fence_id
        fence_id == IF is_fence THEN Some(fid) ELSE None
        pending_cmd == [cmd_id |-> cmd_id, command |-> command, fence_id |-> fence_id]
        idx == Len(m.submitted)
        pending == Insert(m.pending, cmd_id, idx)
        current_pending == Cardinality(DOMAIN pending)
    IN  [model |-> [m EXCEPT
                      !.current_fence_id = IF is_fence THEN @ + 1 ELSE @,
                      !.fence_tracking = IF is_fence THEN Insert(@, fid, <<cmd_id, 0>>) ELSE @,
                      !.submitted = Append(@, pending_cmd),
                      !.pending = pending,
                      !.pending_peak = IF current_pending > @ THEN current_pending ELSE @],
         cmd_id |-> cmd_id,
         is_fence |-> is_fence,
         fence_id |-> fence_id]

\* Faulty variant of submit: the peak of the model is not raised.
submit_without_peak(m, command) ==
    LET cmd_id == m.next_cmd_id
        is_fence == command.type = "FENCE"
        fid == m.current_fence_id
        fence_id == IF is_fence THEN Some(fid) ELSE None
        pending_cmd == [cmd_id |-> cmd_id, command |-> command, fence_id |-> fence_id]
        idx == Len(m.submitted)
    IN  [model |-> [m EXCEPT
                      !.next_cmd_id = cmd_id + 1,
                      !.current_fence_id = IF is_fence THEN @ + 1 ELSE @,
                      !.fence_tracking = IF is_fence THEN Insert(@, fid, <<cmd_id, 0>>) ELSE @,
                      !.submitted = Append(@, pending_cmd),
                      !.pending = Insert(m.pending, cmd_id, idx)],
         cmd_id |-> cmd_id,
         is_fence |-> is_fence,
         fence_id |-> fence_id]

\* The model after submit(command), and what submit returns.
submit(m, command) ==
    LET cmd_id == m.next_cmd_id
        is_fence == command.type = "FENCE"
        fid == m.current_fence_id
        fence_id == IF is_fence THEN Some(fid) ELSE None
        pending_cmd == [cmd_id |-> cmd_id, command |-> command, fence_id |-> fence_id]
        idx == Len(m.submitted)
        pending == Insert(m.pending, cmd_id, idx)
        current_pending == Cardinality(DOMAIN pending)
    IN  [model |-> [m EXCEPT
                      !.next_cmd_id = cmd_id + 1,
                      !.current_fence_id = IF is_fence THEN @ + 1 ELSE @,
                      !.fence_tracking = IF is_fence THEN Insert(@, fid, <<cmd_id, 0>>) ELSE @,
                      !.submitted = Append(@, pending_cmd),
                      !.pending = pending,
                      !.pending_peak = IF current_pending > @ THEN current_pending ELSE @],
         cmd_id |-> cmd_id,
         is_fence |-> is_fence,
         fence_id |-> fence_id]

RECURSIVE SortedSeq(_)
SortedSeq(S) ==
    IF S = {} THEN <<>>
    ELSE LET least == CHOOSE x \in S : \A y \in S : x <= y
         IN  <<least>> \o SortedSeq(S \ {least})

get_pending_canonical(m) == SortedSeq(DOMAIN m.pending)

\* Faulty variant of read_hash: the words are summed, without the factor 31.
RECURSIVE read_hash_sum(_, _, _, _)
read_hash_sum(dev_storage, i, end, hash) ==
    IF i >= end THEN hash
    ELSE read_hash_sum(dev_storage, i + 1, end, wrapping_add(hash, Word(dev_storage, i)))

RECURSIVE read_hash(_, _, _, _)
read_hash(dev_storage, i, end, hash) ==
    IF i >= end THEN hash
    ELSE The({read_hash(dev_storage, i + 1, end, h) :
                h \in {wrapping_add(wrapping_mul(hash, U32(31)), Word(dev_storage, i))}})

\* Faulty variant of execute_command: a WRITE stores into dev_storage as well.
execute_command_write_through(m, command) ==
    IF command.type = "FENCE"
    THEN {[model |-> m, status |-> "OK", output |-> ZERO32, panicked |-> FALSE]}
    ELSE
    LET start == command.lba
        end == wrapping_add(start, U64(command.len))
        overflow == add_overflows(start, U64(command.len))
        too_far == Less(U64(STORAGE_SIZE), end)
        range == IF Less(start, end) THEN ToNat(start)..(ToNat(end) - 1) ELSE {}
        err == [model |-> m, status |-> "ERR", output |-> ZERO32, panicked |-> FALSE]
        ran ==
           CASE command.type = "WRITE" ->
                  IF too_far THEN err
                  ELSE [model |-> [m EXCEPT
                                     !.host_storage =
                                         Store(@, range, [i \in range |-> command.pattern]),
                                     !.dev_storage =
                                         Store(@, range, [i \in range |-> command.pattern])],
                        status |-> "OK", output |-> ZERO32, panicked |-> FALSE]
             [] command.type = "READ" ->
                  IF too_far THEN err
                  ELSE [model |-> m, status |-> "OK",
                        output |-> IF range = {} THEN ZERO32
                                   ELSE read_hash(m.dev_storage, ToNat(start), ToNat(end), ZERO32),
                        panicked |-> FALSE]
             [] command.type = "WRITE_VISIBLE" ->
                  IF too_far THEN err
                  ELSE [model |-> [m EXCEPT !.dev_storage =
                                      Store(@, range, [i \in range |-> Word(m.host_storage, i)])],
                        status |-> "OK", output |-> ZERO32, panicked |-> FALSE]
    IN  IF overflow
        THEN {ran, [model |-> m, status |-> "ERR", output |-> ZERO32, panicked |-> TRUE]}
        ELSE {ran}

\* Faulty variant of execute_command: an access that ends exactly at the end of
\* the storage is refused.
execute_command_excluding_end(m, command) ==
    IF command.type = "FENCE"
    THEN {[model |-> m, status |-> "OK", output |-> ZERO32, panicked |-> FALSE]}
    ELSE
    LET start == command.lba
        end == wrapping_add(start, U64(command.len))
        overflow == add_overflows(start, U64(command.len))
        too_far == ~Less(end, U64(STORAGE_SIZE))
        range == IF Less(start, end) THEN ToNat(start)..(ToNat(end) - 1) ELSE {}
        err == [model |-> m, status |-> "ERR", output |-> ZERO32, panicked |-> FALSE]
        ran ==
           CASE command.type = "WRITE" ->
                  IF too_far THEN err
                  ELSE [model |-> [m EXCEPT !.host_storage =
                                      Store(@, range, [i \in range |-> command.pattern])],
                        status |-> "OK", output |-> ZERO32, panicked |-> FALSE]
             [] command.type = "READ" ->
                  IF too_far THEN err
                  ELSE [model |-> m, status |-> "OK",
                        output |-> IF range = {} THEN ZERO32
                                   ELSE read_hash(m.dev_storage, ToNat(start), ToNat(end), ZERO32),
                        panicked |-> FALSE]
             [] command.type = "WRITE_VISIBLE" ->
                  IF too_far THEN err
                  ELSE [model |-> [m EXCEPT !.dev_storage =
                                      Store(@, range, [i \in range |-> Word(m.host_storage, i)])],
                        status |-> "OK", output |-> ZERO32, panicked |-> FALSE]
    IN  IF overflow
        THEN {ran, [model |-> m, status |-> "ERR", output |-> ZERO32, panicked |-> TRUE]}
        ELSE {ran}

\* The outcomes of execute_command: the model after it, the status and the output.
\* `start + *len as usize` is an unchecked usize addition: when it overflows, a build
\* with overflow checks panics and a build without them wraps.
execute_command(m, command) ==
    IF command.type = "FENCE"
    THEN {[model |-> m, status |-> "OK", output |-> ZERO32, panicked |-> FALSE]}
    ELSE
    LET start == command.lba
        end == wrapping_add(start, U64(command.len))
        overflow == add_overflows(start, U64(command.len))
        too_far == Less(U64(STORAGE_SIZE), end)
        range == IF Less(start, end) THEN ToNat(start)..(ToNat(end) - 1) ELSE {}
        err == [model |-> m, status |-> "ERR", output |-> ZERO32, panicked |-> FALSE]
        ran ==
           CASE command.type = "WRITE" ->
                  IF too_far THEN err
                  ELSE [model |-> [m EXCEPT !.host_storage =
                                      Store(@, range, [i \in range |-> command.pattern])],
                        status |-> "OK", output |-> ZERO32, panicked |-> FALSE]
             [] command.type = "READ" ->
                  IF too_far THEN err
                  ELSE [model |-> m, status |-> "OK",
                        output |-> IF range = {} THEN ZERO32
                                   ELSE read_hash(m.dev_storage, ToNat(start), ToNat(end), ZERO32),
                        panicked |-> FALSE]
             [] command.type = "WRITE_VISIBLE" ->
                  IF too_far THEN err
                  ELSE [model |-> [m EXCEPT !.dev_storage =
                                      Store(@, range, [i \in range |-> Word(m.host_storage, i)])],
                        status |-> "OK", output |-> ZERO32, panicked |-> FALSE]
    IN  IF overflow
        THEN {ran, [model |-> m, status |-> "ERR", output |-> ZERO32, panicked |-> TRUE]}
        ELSE {ran}

\* Faulty variant of complete: the command stays in pending.
complete_keeping_pending(m, cmd_id, force_status) ==
    IF cmd_id \notin DOMAIN m.pending
    THEN {[model |-> m, result |-> None, panicked |-> FALSE]}
    ELSE
    LET idx == m.pending[cmd_id]
        command == m.submitted[idx + 1].command
        ran == IF force_status # None
               THEN {[model |-> m, status |-> force_status[1], output |-> ZERO32,
                      panicked |-> FALSE]}
               ELSE execute_command(m, command)
        finish(o) ==
           LET result == [cmd_id |-> cmd_id, status |-> o.status, output |-> o.output]
           IN  [model |-> [o.model EXCEPT
                             !.fence_tracking =
                                 [fid \in DOMAIN @ |->
                                     IF cmd_id < @[fid][1]
                                     THEN <<@[fid][1], @[fid][2] + 1>>
                                     ELSE @[fid]],
                             !.completed = Append(@, result)],
                result |-> Some(result),
                panicked |-> FALSE]
    IN  {IF o.panicked THEN [model |-> m, result |-> None, panicked |-> TRUE]
         ELSE finish(o) : o \in ran}

\* Faulty variant of complete: a cmd_id that is not pending is recorded as a
\* completion with status ERR.
complete_recording_unknown(m, cmd_id, force_status) ==
    IF cmd_id \notin DOMAIN m.pending
    THEN {[model |-> [m EXCEPT !.completed =
                         Append(@, [cmd_id |-> cmd_id, status |-> "ERR", output |-> ZERO32])],
           result |-> None, panicked |-> FALSE]}
    ELSE
    LET idx == m.pending[cmd_id]
        removed == [m EXCEPT !.pending = Remove(@, cmd_id)]
        command == m.submitted[idx + 1].command
        ran == IF force_status # None
               THEN {[model |-> removed, status |-> force_status[1], output |-> ZERO32,
                      panicked |-> FALSE]}
               ELSE execute_command(removed, command)
        finish(o) ==
           LET result == [cmd_id |-> cmd_id, status |-> o.status, output |-> o.output]
           IN  [model |-> [o.model EXCEPT
                             !.fence_tracking =
                                 [fid \in DOMAIN @ |->
                                     IF cmd_id < @[fid][1]
                                     THEN <<@[fid][1], @[fid][2] + 1>>
                                     ELSE @[fid]],
                             !.completed = Append(@, result)],
                result |-> Some(result),
                panicked |-> FALSE]
    IN  {IF o.panicked THEN [model |-> removed, result |-> None, panicked |-> TRUE]
         ELSE finish(o) : o \in ran}

\* The outcomes of complete(cmd_id, force_status): the model after it and the
\* CommandResult returned (None when cmd_id is not pending).
complete(m, cmd_id, force_status) ==
    IF cmd_id \notin DOMAIN m.pending
    THEN {[model |-> m, result |-> None, panicked |-> FALSE]}
    ELSE
    LET idx == m.pending[cmd_id]
        removed == [m EXCEPT !.pending = Remove(@, cmd_id)]
        command == m.submitted[idx + 1].command
        ran == IF force_status # None
               THEN {[model |-> removed, status |-> force_status[1], output |-> ZERO32,
                      panicked |-> FALSE]}
               ELSE execute_command(removed, command)
        finish(o) ==
           LET result == [cmd_id |-> cmd_id, status |-> o.status, output |-> o.output]
           IN  [model |-> [o.model EXCEPT
                             !.fence_tracking =
                                 [fid \in DOMAIN @ |->
                                     IF cmd_id < @[fid][1]
                                     THEN <<@[fid][1], @[fid][2] + 1>>
                                     ELSE @[fid]],
                             !.completed = Append(@, result)],
                result |-> Some(result),
                panicked |-> FALSE]
    IN  {IF o.panicked THEN [model |-> removed, result |-> None, panicked |-> TRUE]
         ELSE finish(o) : o \in ran}

\* Faulty variant of reset: the pending commands are counted after they were
\* cleared.
reset_counting_after_clear(m) ==
    LET cleared == [m EXCEPT !.pending = <<>>]
        pending_before == Cardinality(DOMAIN cleared.pending)
    IN  [model |-> [cleared EXCEPT !.commands_lost_to_reset = pending_before,
                                   !.had_reset = TRUE],
         pending_before |-> pending_before]

\* Faulty variant of reset: the cmd_id counter starts over.
reset_restarting_ids(m) ==
    LET pending_before == Cardinality(DOMAIN m.pending)
    IN  [model |-> [m EXCEPT !.commands_lost_to_reset = pending_before,
                             !.pending = <<>>,
                             !.had_reset = TRUE,
                             !.next_cmd_id = 0],
         pending_before |-> pending_before]

\* Faulty variant of reset: the fence counter and the fence table start over.
reset_clearing_fences(m) ==
    LET pending_before == Cardinality(DOMAIN m.pending)
    IN  [model |-> [m EXCEPT !.commands_lost_to_reset = pending_before,
                             !.pending = <<>>,
                             !.had_reset = TRUE,
                             !.current_fence_id = 0,
                             !.fence_tracking = <<>>],
         pending_before |-> pending_before]

\* The model after reset(), and the number of commands that were pending.
reset(m) ==
    LET pending_before == Cardinality(DOMAIN m.pending)
    IN  [model |-> [m EXCEPT !.commands_lost_to_reset = pending_before,
                             !.pending = <<>>,
                             !.had_reset = TRUE],
         pending_before |-> pending_before]

\* --------------------------------------------------- scheduler.rs: Scheduler

Policies == {"FIFO", "RANDOM", "ADVERSARIAL", "BATCHED"}

Scheduler_new(policy, bound_k, schedule_seed) ==
    [policy |-> policy,
     bound_k |-> bound_k,
     rng |-> seed_from_u64(schedule_seed),
     batch_size |-> 4,
     batch_buffer |-> <<>>,
     decisions |-> <<>>]

\* Scheduler::next_bit: the scheduler after the draw, and the bit.
next_bit(sched) ==
    LET d == rng_next_bit(sched.rng)
    IN  [scheduler |-> [sched EXCEPT !.rng = d.rng], value |-> d.value]

\* Faulty variant of get_candidates: the reorder bound is ignored.
get_candidates_unbounded(sched, pending) == pending

get_candidates(sched, pending) ==
    IF pending = <<>> THEN pending
    ELSE LET max_idx == IF sched.bound_k = Infinite
                        THEN Len(pending) - 1
                        ELSE Min(sched.bound_k[2], Len(pending) - 1)
         IN  SubSeq(pending, 1, max_idx + 1)

\* Faulty variants of pick_next.  The first takes the newest pending command
\* whatever the candidate slice is, the second always takes the oldest, the third
\* takes the oldest candidate under BATCHED without a draw, the fourth advances
\* the generator under every policy.
pick_next_beyond_bound(sched, pending) ==
    IF pending = <<>> THEN [scheduler |-> sched, decision |-> None]
    ELSE LET decision == [pick_index |-> Len(pending) - 1, cmd_id |-> pending[Len(pending)]]
         IN  [scheduler |-> [sched EXCEPT !.decisions = Append(@, decision)],
              decision |-> Some(decision)]

pick_next_oldest(sched, pending) ==
    IF pending = <<>> THEN [scheduler |-> sched, decision |-> None]
    ELSE LET decision == [pick_index |-> 0, cmd_id |-> pending[1]]
         IN  [scheduler |-> [sched EXCEPT !.decisions = Append(@, decision)],
              decision |-> Some(decision)]

pick_next_batched_oldest(sched, pending) ==
    LET candidates == get_candidates(sched, pending)
    IN  IF candidates = <<>> THEN [scheduler |-> sched, decision |-> None]
        ELSE
        LET draw == gen_index(sched.rng, Len(candidates))
            drawn == sched.policy = "RANDOM"
            pick_index == CASE sched.policy = "FIFO" -> 0
                            [] sched.policy = "RANDOM" -> draw.value
                            [] sched.policy = "ADVERSARIAL" -> Len(candidates) - 1
                            [] sched.policy = "BATCHED" -> 0
            decision == [pick_index |-> pick_index, cmd_id |-> candidates[pick_index + 1]]
        IN  [scheduler |-> [sched EXCEPT !.rng = IF drawn THEN draw.rng ELSE @,
                                         !.decisions = Append(@, decision)],
             decision |-> Some(decision)]

pick_next_always_drawing(sched, pending) ==
    LET candidates == get_candidates(sched, pending)
    IN  IF candidates = <<>> THEN [scheduler |-> sched, decision |-> None]
        ELSE
        LET draw == gen_index(sched.rng, Len(candidates))
            pick_index == CASE sched.policy = "FIFO" -> 0
                            [] sched.policy = "RANDOM" -> draw.value
                            [] sched.policy = "ADVERSARIAL" -> Len(candidates) - 1
                            [] sched.policy = "BATCHED" -> draw.value
            decision == [pick_index |-> pick_index, cmd_id |-> candidates[pick_index + 1]]
        IN  [scheduler |-> [sched EXCEPT !.rng = draw.rng,
                                         !.decisions = Append(@, decision)],
             decision |-> Some(decision)]

\* The scheduler after pick_next(pending), and the Decision (or None).
\* pick_index counts from 0, as in the code.
pick_next(sched, pending) ==
    LET candidates == get_candidates(sched, pending)
    IN  IF candidates = <<>> THEN [scheduler |-> sched, decision |-> None]
        ELSE
        LET draw == gen_index(sched.rng, Len(candidates))
            drawn == sched.policy \in {"RANDOM", "BATCHED"}
            pick_index == CASE sched.policy = "FIFO" -> 0
                            [] sched.policy = "RANDOM" -> draw.value
                            [] sched.policy = "ADVERSARIAL" -> Len(candidates) - 1
                            [] sched.policy = "BATCHED" -> draw.value
            decision == [pick_index |-> pick_index, cmd_id |-> candidates[pick_index + 1]]
        IN  [scheduler |-> [sched EXCEPT !.rng = IF drawn THEN draw.rng ELSE @,
                                         !.decisions = Append(@, decision)],
             decision |-> Some(decision)]

\* ------------------------------------------------------ logging.rs: Logger

FaultModes == {"NONE", "TIMEOUT", "RESET"}

\* Faulty variant of below_window: the comparison is off by one.
below_window_inclusive(count, window) ==
    IF window = Infinite THEN TRUE ELSE count <= window[2]

\* pending_count < submit_window.value(), where value() is usize::MAX for Infinite
below_window(count, window) == IF window = Infinite THEN TRUE ELSE count < window[2]

Logger_new == [buffer |-> <<>>]

\* A log line is kept as the record of the fields its format string prints.
write_header_with_window(lg, run_id, seed_id, cfg, n_cmds) ==
    [lg EXCEPT !.buffer = Append(@,
        [ev |-> "RUN_HEADER", run_id |-> run_id, seed_id |-> seed_id,
         schedule_seed |-> cfg.schedule_seed, policy |-> cfg.policy,
         bound_k |-> cfg.bound_k, fault_mode |-> cfg.fault_mode, n_cmds |-> n_cmds,
         submit_window |-> cfg.submit_window,
         scheduler_version |-> cfg.scheduler_version, git_commit |-> cfg.git_commit])]

log_submit(lg, cmd_id, cmd_type) ==
    [lg EXCEPT !.buffer = Append(@, [ev |-> "SUBMIT", cmd_id |-> cmd_id, cmd_type |-> cmd_type])]

log_fence(lg, fence_id) ==
    [lg EXCEPT !.buffer = Append(@, [ev |-> "FENCE", fence_id |-> fence_id])]

log_complete(lg, cmd_id, status, output) ==
    [lg EXCEPT !.buffer = Append(@, [ev |-> "COMPLETE", cmd_id |-> cmd_id,
                                     status |-> status, out |-> output])]

log_reset(lg, reason, pending_before) ==
    [lg EXCEPT !.buffer = Append(@, [ev |-> "RESET", reason |-> reason,
                                     pending_before |-> pending_before])]

log_run_end(lg, pending_left, peak) ==
    [lg EXCEPT !.buffer = Append(@, [ev |-> "RUN_END", pending_left |-> pending_left,
                                     pending_peak |-> peak])]

SerializedSchedule_new(seed_id, cfg) ==
    [seed_id |-> seed_id, schedule_seed |-> cfg.schedule_seed, policy |-> cfg.policy,
     bound_k |-> cfg.bound_k, fault_mode |-> cfg.fault_mode, steps |-> <<>>]

add_complete(sch, pick_index) ==
    [sch EXCEPT !.steps = Append(@, [type |-> "CompletePick", pick_index |-> pick_index])]

\* (faulty variant: the step counter is read after this iteration was counted)
add_fault_after_step(sch, fault_type, at_step) ==
    [sch EXCEPT !.steps = Append(@, [type |-> "FAULT", fault_type |-> fault_type,
                                     at_step |-> at_step + 1])]

add_fault(sch, fault_type, at_step) ==
    [sch EXCEPT !.steps = Append(@, [type |-> "FAULT", fault_type |-> fault_type,
                                     at_step |-> at_step])]

\* ------------------------------------------------ runner.rs: execute_run

run_id(cfg) == <<cfg.seed_id, cfg.policy, cfg.bound_k, cfg.schedule_seed, cfg.fault_mode>>

RunConfig(seed_id, schedule_seed, policy, bound_k, fault_mode, submit_window) ==
    [seed_id |-> seed_id, schedule_seed |-> schedule_seed, policy |-> policy,
     bound_k |-> bound_k, fault_mode |-> fault_mode, submit_window |-> submit_window,
     scheduler_version |-> "v1.0", git_commit |-> "", dump_schedule |-> TRUE]

n_cmds == Len(seed.commands)

fault_step == IF config.fault_mode # "NONE" THEN Some(n_cmds \div 2) ELSE None

\* What execute_run builds before its loop (runner.rs:53-113).
new_scheduler(cfg) == Scheduler_new(cfg.policy, cfg.bound_k, cfg.schedule_seed)

new_logger(s, cfg) ==
    write_header_with_window(Logger_new, run_id(cfg), s.seed_id, cfg, Len(s.commands))

\* Faulty variant of submit_ok: the last command of the seed is never submitted.
submit_ok_short ==
    /\ below_window(pending_count(model), config.submit_window)
    /\ next_cmd + 1 < n_cmds
    /\ ~stop_submits

submit_ok ==
    /\ below_window(pending_count(model), config.submit_window)
    /\ next_cmd < n_cmds
    /\ ~stop_submits

complete_ok == pending_count(model) > 0

\* Faulty variant of choose_action: the coin is flipped outside a burst whether
\* or not both actions are legal.
choose_action_always_flipping ==
    IF config.policy = "BATCHED" /\ batch_remaining > 0
    THEN [do_complete |-> TRUE, scheduler |-> scheduler]
    ELSE LET bit == next_bit(scheduler)
         IN  IF submit_ok /\ complete_ok
             THEN [do_complete |-> bit.value = 1, scheduler |-> bit.scheduler]
             ELSE IF complete_ok
             THEN [do_complete |-> TRUE, scheduler |-> bit.scheduler]
             ELSE [do_complete |-> FALSE, scheduler |-> bit.scheduler]

\* The submit-or-complete decision of one loop iteration, and the scheduler after it.
choose_action ==
    IF config.policy = "BATCHED" /\ batch_remaining > 0
    THEN [do_complete |-> TRUE, scheduler |-> scheduler]
    ELSE IF submit_ok /\ complete_ok
    THEN LET bit == next_bit(scheduler)
         IN  [do_complete |-> bit.value = 1, scheduler |-> bit.scheduler]
    ELSE IF complete_ok
    THEN [do_complete |-> TRUE, scheduler |-> scheduler]
    ELSE [do_complete |-> FALSE, scheduler |-> scheduler]

\* Faulty variant of fault_fires: the fault waits for one more completion.
fault_fires_late == fault_step # None /\ step_count > fault_step[1] /\ ~fault_injected

fault_fires == fault_step # None /\ step_count >= fault_step[1] /\ ~fault_injected

\* Faulty variant of do_submit_log: the FENCE line is left out.
do_submit_log_without_fence(lg, sub, command) ==
    log_submit(lg, sub.cmd_id, type_name(command))

\* The logger after do_submit's lines for what submit returned.
do_submit_log(lg, sub, command) ==
    LET submitted == log_submit(lg, sub.cmd_id, type_name(command))
    IN  IF sub.is_fence /\ sub.fence_id # None
        THEN log_fence(submitted, sub.fence_id[1])
        ELSE submitted

\* Faulty variant of BreakLoop: the loop is left only once the whole seed has
\* been submitted.
BreakLoopAfterLastSubmit ==
    /\ pc = "loop"
    /\ ~submit_ok /\ ~complete_ok
    /\ next_cmd >= n_cmds
    /\ pc' = "end"
    /\ UNCHANGED <<seed, config, model, scheduler, logger, schedule, next_cmd,
                   pending_peak, step_count, fault_injected, stop_submits,
                   batch_remaining, finished, call, ret>>

\* runner.rs:121-123
BreakLoop ==
    /\ pc = "loop"
    /\ ~submit_ok /\ ~complete_ok
    /\ pc' = "end"
    /\ UNCHANGED <<seed, config, model, scheduler, logger, schedule, next_cmd,
                   pending_peak, step_count, fault_injected, stop_submits,
                   batch_remaining, finished, call, ret>>

\* Faulty variant of LoopSubmit: the local peak is not updated.
LoopSubmitWithoutPeak ==
    /\ pc = "loop"
    /\ ~(~submit_ok /\ ~complete_ok)
    /\ LET action == choose_action
           command == seed.commands[next_cmd + 1]
           sub == submit(model, command)
       IN  /\ ~action.do_complete
           /\ model' = sub.model
           /\ logger' = do_submit_log(logger, sub, command)
           /\ scheduler' = action.scheduler
    /\ next_cmd' = next_cmd + 1
    /\ UNCHANGED <<seed, config, schedule, pending_peak, step_count, fault_injected,
                   stop_submits, batch_remaining, pc, finished, call, ret>>

\* runner.rs:194-202
\* (the values of one iteration are bound by \E over singletons, which evaluates
\* each of them once)
LoopSubmit ==
    /\ pc = "loop"
    /\ ~(~submit_ok /\ ~complete_ok)
    /\ \E action \in {choose_action} :
         /\ ~action.do_complete
         /\ \E command \in {seed.commands[next_cmd + 1]} :
            \E sub \in {submit(model, command)} :
            \E current \in {pending_count(sub.model)} :
              /\ model' = sub.model
              /\ logger' = do_submit_log(logger, sub, command)
              /\ pending_peak' = IF current > pending_peak THEN current ELSE pending_peak
              /\ scheduler' = action.scheduler
    /\ next_cmd' = next_cmd + 1
    /\ UNCHANGED <<seed, config, schedule, step_count, fault_injected, stop_submits,
                   batch_remaining, pc, finished, call, ret>>

\* (faulty variant: the victim of the TIMEOUT is the newest pending command)
InjectTimeoutOnNewest ==
    /\ pc = "loop"
    /\ ~(~submit_ok /\ ~complete_ok)
    /\ fault_fires
    /\ config.fault_mode = "TIMEOUT"
    /\ \E action \in {choose_action} :
       \E pending \in {get_pending_canonical(model)} :
           /\ action.do_complete
           /\ scheduler' = action.scheduler
           /\ IF pending # <<>>
              THEN \E o \in complete(model, pending[Len(pending)], Some("TIMEOUT")) :
                     /\ model' = o.model
                     /\ IF o.result # None
                        THEN /\ logger' = log_complete(logger, o.result[1].cmd_id,
                                                       o.result[1].status, o.result[1].output)
                             /\ schedule' = add_fault(schedule, "TIMEOUT", step_count)
                        ELSE UNCHANGED <<logger, schedule>>
              ELSE UNCHANGED <<model, logger, schedule>>
    /\ fault_injected' = TRUE
    /\ stop_submits' = TRUE
    /\ step_count' = step_count + 1
    /\ UNCHANGED <<seed, config, next_cmd, pending_peak, batch_remaining, pc, finished, call, ret>>

\* Faulty variant of InjectTimeout: stop_submits is not set.
InjectTimeoutWithoutStop ==
    /\ pc = "loop"
    /\ ~(~submit_ok /\ ~complete_ok)
    /\ fault_step # None /\ step_count >= fault_step[1] /\ ~fault_injected
    /\ config.fault_mode = "TIMEOUT"
    /\ LET action == choose_action
           pending == get_pending_canonical(model)
       IN  /\ action.do_complete
           /\ scheduler' = action.scheduler
           /\ IF pending # <<>>
              THEN \E o \in complete(model, pending[1], Some("TIMEOUT")) :
                     /\ model' = o.model
                     /\ logger' = log_complete(logger, o.result[1].cmd_id,
                                               o.result[1].status, o.result[1].output)
                     /\ schedule' = add_fault(schedule, "TIMEOUT", step_count)
              ELSE UNCHANGED <<model, logger, schedule>>
    /\ fault_injected' = TRUE
    /\ step_count' = step_count + 1
    /\ UNCHANGED <<seed, config, next_cmd, pending_peak, stop_submits, batch_remaining,
                   pc, finished, call, ret>>

\* Faulty variant of InjectTimeout: the command to time out is taken from the
\* scheduler.
InjectTimeoutByPick ==
    /\ pc = "loop"
    /\ ~(~submit_ok /\ ~complete_ok)
    /\ fault_step # None /\ step_count >= fault_step[1] /\ ~fault_injected
    /\ config.fault_mode = "TIMEOUT"
    /\ LET action == choose_action
           pending == get_pending_canonical(model)
           pick == pick_next(action.scheduler, pending)
       IN  /\ action.do_complete
           /\ scheduler' = pick.scheduler
           /\ IF pick.decision # None
              THEN \E o \in complete(model, pick.decision[1].cmd_id, Some("TIMEOUT")) :
                     /\ model' = o.model
                     /\ logger' = log_complete(logger, o.result[1].cmd_id,
                                               o.result[1].status, o.result[1].output)
                     /\ schedule' = add_fault(schedule, "TIMEOUT", step_count)
              ELSE UNCHANGED <<model, logger, schedule>>
    /\ fault_injected' = TRUE
    /\ stop_submits' = TRUE
    /\ step_count' = step_count + 1
    /\ UNCHANGED <<seed, config, next_cmd, pending_peak, batch_remaining, pc, finished, call, ret>>

\* runner.rs:144-161
InjectTimeout ==
    /\ pc = "loop"
    /\ ~(~submit_ok /\ ~complete_ok)
    /\ fault_fires
    /\ config.fault_mode = "TIMEOUT"
    /\ \E action \in {choose_action} :
       \E pending \in {get_pending_canonical(model)} :
           /\ action.do_complete
           /\ scheduler' = action.scheduler
           /\ IF pending # <<>>
              THEN \E o \in complete(model, pending[1], Some("TIMEOUT")) :
                     /\ model' = o.model
                     /\ IF o.result # None
                        THEN /\ logger' = log_complete(logger, o.result[1].cmd_id,
                                                       o.result[1].status, o.result[1].output)
                             /\ schedule' = add_fault(schedule, "TIMEOUT", step_count)
                        ELSE UNCHANGED <<logger, schedule>>
              ELSE UNCHANGED <<model, logger, schedule>>
    /\ fault_injected' = TRUE
    /\ stop_submits' = TRUE
    /\ step_count' = step_count + 1
    /\ UNCHANGED <<seed, config, next_cmd, pending_peak, batch_remaining, pc, finished, call, ret>>

\* Faulty variant of InjectReset: the loop goes on after the reset.
InjectResetAndContinue ==
    /\ pc = "loop"
    /\ ~(~submit_ok /\ ~complete_ok)
    /\ fault_step # None /\ step_count >= fault_step[1] /\ ~fault_injected
    /\ config.fault_mode = "RESET"
    /\ LET action == choose_action
           r == reset(model)
       IN  /\ action.do_complete
           /\ scheduler' = action.scheduler
           /\ model' = r.model
           /\ logger' = log_reset(logger, "INJECTED", r.pending_before)
    /\ schedule' = add_fault(schedule, "RESET", step_count)
    /\ fault_injected' = TRUE
    /\ step_count' = step_count + 1
    /\ UNCHANGED <<seed, config, next_cmd, pending_peak, stop_submits,
                   batch_remaining, pc, finished, call, ret>>

\* runner.rs:162-168
InjectReset ==
    /\ pc = "loop"
    /\ ~(~submit_ok /\ ~complete_ok)
    /\ fault_fires
    /\ config.fault_mode = "RESET"
    /\ \E action \in {choose_action} :
       \E r \in {reset(model)} :
           /\ action.do_complete
           /\ scheduler' = action.scheduler
           /\ model' = r.model
           /\ logger' = log_reset(logger, "INJECTED", r.pending_before)
    /\ schedule' = add_fault(schedule, "RESET", step_count)
    /\ fault_injected' = TRUE
    /\ pc' = "end"
    /\ UNCHANGED <<seed, config, next_cmd, pending_peak, step_count, stop_submits,
                   batch_remaining, finished, call, ret>>

\* Faulty variant of burst_start: the burst takes the whole pending list.
burst_start_whole_queue(pending) ==
    IF config.policy = "BATCHED" /\ batch_remaining = 0 /\ pending # <<>>
    THEN Len(pending)
    ELSE batch_remaining

\* (faulty variant: a burst is always BATCH_SIZE long)
burst_start_full_batch(pending) ==
    IF config.policy = "BATCHED" /\ batch_remaining = 0 /\ pending # <<>>
    THEN BATCH_SIZE
    ELSE batch_remaining

\* batch_remaining after the burst start of runner.rs:178-180
burst_start(pending) ==
    IF config.policy = "BATCHED" /\ batch_remaining = 0 /\ pending # <<>>
    THEN Min(BATCH_SIZE, Len(pending))
    ELSE batch_remaining

\* runner.rs:174-193
LoopComplete ==
    /\ pc = "loop"
    /\ ~(~submit_ok /\ ~complete_ok)
    /\ ~fault_fires
    /\ \E action \in {choose_action} :
       \E pending \in {get_pending_canonical(model)} :
       \E burst \in {burst_start(pending)} :
       \E pick \in {pick_next(action.scheduler, pending)} :
           /\ action.do_complete
           /\ scheduler' = pick.scheduler
           /\ IF pick.decision # None
              THEN \E o \in complete(model, pick.decision[1].cmd_id, None) :
                     /\ ~o.panicked
                     /\ model' = o.model
                     /\ IF o.result # None
                        THEN /\ logger' = log_complete(logger, o.result[1].cmd_id,
                                                       o.result[1].status, o.result[1].output)
                             /\ schedule' = add_complete(schedule, pick.decision[1].pick_index)
                             /\ batch_remaining' =
                                  IF config.policy = "BATCHED" /\ burst > 0
                                  THEN burst - 1 ELSE burst
                        ELSE /\ batch_remaining' = burst
                             /\ UNCHANGED <<logger, schedule>>
              ELSE /\ batch_remaining' = burst
                   /\ UNCHANGED <<model, logger, schedule>>
    /\ step_count' = step_count + 1
    /\ UNCHANGED <<seed, config, next_cmd, pending_peak, fault_injected, stop_submits,
                   pc, finished, call, ret>>

\* runner.rs:205-227: RUN_END, and the log and the schedule record written out
RunEnd ==
    /\ pc = "end"
    /\ LET pending_left == pending_count(model)
           final_peak == Max(pending_peak, model.pending_peak)
           ended == log_run_end(logger, pending_left, final_peak)
       IN  /\ logger' = ended
           /\ finished' = Append(finished, [seed |-> seed, config |-> config,
                                            log |-> ended.buffer, steps |-> schedule.steps])
    /\ pc' = "done"
    /\ UNCHANGED <<seed, config, model, scheduler, schedule, next_cmd, pending_peak,
                   step_count, fault_injected, stop_submits, batch_remaining, call, ret>>

\* What execute_run(s, cfg) holds at the head of its loop (runner.rs:53-115).
RunStart(s, cfg) ==
    [seed |-> s,
     config |-> cfg,
     model |-> NvmeLiteModel_new,
     scheduler |-> new_scheduler(cfg),
     logger |-> new_logger(s, cfg),
     schedule |-> SerializedSchedule_new(s.seed_id, cfg),
     next_cmd |-> 0,
     pending_peak |-> 0,
     step_count |-> 0,
     fault_injected |-> FALSE,
     stop_submits |-> FALSE,
     batch_remaining |-> 0]

EnterRun(s, cfg) ==
    LET st == RunStart(s, cfg)
    IN  /\ seed = st.seed
        /\ config = st.config
        /\ model = st.model
        /\ scheduler = st.scheduler
        /\ logger = st.logger
        /\ schedule = st.schedule
        /\ next_cmd = st.next_cmd
        /\ pending_peak = st.pending_peak
        /\ step_count = st.step_count
        /\ fault_injected = st.fault_injected
        /\ stop_submits = st.stop_submits
        /\ batch_remaining = st.batch_remaining
        /\ pc = "loop"

\* ------------------------------------------------------------ the inputs

RECURSIVE SeqsUpTo(_, _)
SeqsUpTo(S, n) ==
    IF n = 0 THEN {<<>>}
    ELSE LET shorter == SeqsUpTo(S, n - 1)
         IN  shorter \cup {Append(q, x) : q \in {r \in shorter : Len(r) = n - 1}, x \in S}

\* One command of each type of seed.rs, all in range.
CommandAlphabet ==
    {WRITE(U64(0), 2, U32(123)), READ(U64(0), 2), FENCE, WRITE_VISIBLE(U64(0), 2)}

Seeds == {[seed_id |-> "seed", commands |-> c] : c \in SeqsUpTo(CommandAlphabet, MaxCmds)}

Bounds == {Finite(0), Finite(1), Infinite}
Windows == {Finite(0), Finite(1), Finite(2), Infinite}
ScheduleSeeds == {U64(n) : n \in 0..MaxScheduleSeed}

Configs ==
    {RunConfig("seed", ss, p, k, f, w) :
        ss \in ScheduleSeeds, p \in Policies, k \in Bounds, f \in FaultModes, w \in Windows}

\* ------------------------------------------------- one call of execute_run

Init ==
    /\ \E s \in Seeds, cfg \in Configs : EnterRun(s, cfg)
    /\ finished = <<>>
    /\ call = None
    /\ ret = None

Next ==
    \/ BreakLoop
    \/ LoopSubmit
    \/ LoopComplete
    \/ InjectTimeout
    \/ InjectReset
    \/ RunEnd

Spec == Init /\ [][Next]_vars

\* execute_run is one thread of control that never waits: a step that can be
\* taken is taken.
FairConfigs ==
    {RunConfig("seed", U64(0), p, k, f, w) :
        p \in Policies, k \in {Finite(1), Infinite}, f \in FaultModes,
        w \in {Finite(0), Finite(1), Infinite}}

InitFair ==
    /\ \E s \in Seeds, cfg \in FairConfigs : EnterRun(s, cfg)
    /\ finished = <<>>
    /\ call = None
    /\ ret = None

SpecFair == InitFair /\ [][Next]_vars /\ WF_vars(Next)

\* --------------------------- main.rs: execute_run called again and again

\* The seeds and the configurations of the experiment matrix.
MatrixSeeds ==
    {[seed_id |-> "a", commands |-> <<WRITE(U64(0), 2, U32(123)), WRITE_VISIBLE(U64(0), 2),
                                      READ(U64(0), 2)>>],
     [seed_id |-> "b", commands |-> <<FENCE, READ(U64(0), 2)>>]}

MatrixConfigs(s) ==
    {RunConfig(s.seed_id, ss, "RANDOM", Infinite, f, Infinite) :
        ss \in {U64(0), U64(1)}, f \in FaultModes}

\* Faulty variant of NextRun: the generator of the run before is carried over.
NextRunKeepingRng ==
    /\ pc = "done"
    /\ Len(finished) < MaxRuns
    /\ \E s \in MatrixSeeds : \E cfg \in MatrixConfigs(s) :
         LET st == RunStart(s, cfg)
         IN  /\ seed' = st.seed
             /\ config' = st.config
             /\ model' = st.model
             /\ scheduler' = [st.scheduler EXCEPT !.rng = scheduler.rng]
             /\ logger' = st.logger
             /\ schedule' = st.schedule
             /\ next_cmd' = st.next_cmd
             /\ pending_peak' = st.pending_peak
             /\ step_count' = st.step_count
             /\ fault_injected' = st.fault_injected
             /\ stop_submits' = st.stop_submits
             /\ batch_remaining' = st.batch_remaining
    /\ pc' = "loop"
    /\ UNCHANGED <<finished, call, ret>>

\* main.rs:256-292: the next execute_run of the matrix loop
NextRun ==
    /\ pc = "done"
    /\ Len(finished) < MaxRuns
    /\ \E s \in MatrixSeeds : \E cfg \in MatrixConfigs(s) :
         LET st == RunStart(s, cfg)
         IN  /\ seed' = st.seed
             /\ config' = st.config
             /\ model' = st.model
             /\ scheduler' = st.scheduler
             /\ logger' = st.logger
             /\ schedule' = st.schedule
             /\ next_cmd' = st.next_cmd
             /\ pending_peak' = st.pending_peak
             /\ step_count' = st.step_count
             /\ fault_injected' = st.fault_injected
             /\ stop_submits' = st.stop_submits
             /\ batch_remaining' = st.batch_remaining
    /\ pc' = "loop"
    /\ UNCHANGED <<finished, call, ret>>

InitRuns ==
    /\ \E s \in MatrixSeeds : \E cfg \in MatrixConfigs(s) : EnterRun(s, cfg)
    /\ finished = <<>>
    /\ call = None
    /\ ret = None

NextRuns ==
    \/ BreakLoop
    \/ LoopSubmit
    \/ LoopComplete
    \/ InjectTimeout
    \/ InjectReset
    \/ RunEnd
    \/ NextRun

SpecRuns == InitRuns /\ [][NextRuns]_vars

\* ------------------------------------- scheduler.rs: pick_next on its own

\* The canonical pending lists: ascending lists of distinct cmd_ids.
PendingLists == {SortedSeq(S) : S \in SUBSET (0..MaxCmds)}

PickBounds == {Finite(k) : k \in 0..MaxCmds} \cup {Infinite}

InitPick ==
    /\ \E p \in Policies, k \in PickBounds, ss \in ScheduleSeeds, pending \in PendingLists :
         /\ EnterRun([seed_id |-> "seed", commands |-> <<>>],
                     RunConfig("seed", ss, p, k, "NONE", Infinite))
         /\ call = [scheduler |-> Scheduler_new(p, k, ss), pending |-> pending]
    /\ finished = <<>>
    /\ ret = None

CallPickNext ==
    /\ pc = "loop"
    /\ call # None
    /\ LET pick == pick_next(scheduler, call.pending)
       IN  /\ scheduler' = pick.scheduler
           /\ ret' = pick.decision
    /\ pc' = "returned"
    /\ UNCHANGED <<seed, config, model, logger, schedule, next_cmd, pending_peak,
                   step_count, fault_injected, stop_submits, batch_remaining, finished,
                   call>>

NextPick == CallPickNext

SpecPick == InitPick /\ [][NextPick]_vars

\* ------------------------------- model.rs: the operations of the model alone

\* The commands of the unit tests of model.rs and of the scenarios: four words at 0
ModelCommands ==
    {WRITE(U64(0), 4, U32(123)), READ(U64(0), 4), FENCE, WRITE_VISIBLE(U64(0), 4)}

ForcedStatuses == {None, Some("TIMEOUT")}

InitModel ==
    /\ LET st == RunStart([seed_id |-> "seed", commands |-> <<>>],
                          RunConfig("seed", U64(0), "FIFO", Infinite, "NONE", Infinite))
       IN  /\ seed = st.seed
           /\ config = st.config
           /\ model = st.model
           /\ scheduler = st.scheduler
           /\ logger = st.logger
           /\ schedule = st.schedule
           /\ next_cmd = st.next_cmd
           /\ pending_peak = st.pending_peak
           /\ step_count = st.step_count
           /\ fault_injected = st.fault_injected
           /\ stop_submits = st.stop_submits
           /\ batch_remaining = st.batch_remaining
    /\ pc = "model"
    /\ finished = <<>>
    /\ call = None
    /\ ret = None

\* model.submit(command)
CallSubmit ==
    /\ pc = "model"
    /\ Len(model.submitted) < MaxSubmits
    /\ \E command \in ModelCommands :
         LET sub == submit(model, command)
         IN  /\ model' = sub.model
             /\ call' = [op |-> "submit", command |-> command]
             /\ ret' = [cmd_id |-> sub.cmd_id, is_fence |-> sub.is_fence,
                        fence_id |-> sub.fence_id]
    /\ UNCHANGED <<seed, config, scheduler, logger, schedule, next_cmd, pending_peak,
                   step_count, fault_injected, stop_submits, batch_remaining, pc,
                   finished>>

\* model.complete(cmd_id, force_status), for pending and for other cmd_ids
CallComplete ==
    /\ pc = "model"
    /\ \E cmd_id \in 0..MaxSubmits, force_status \in ForcedStatuses :
         \E o \in complete(model, cmd_id, force_status) :
             /\ ~o.panicked
             /\ model' = o.model
             /\ call' = [op |-> "complete", cmd_id |-> cmd_id, force_status |-> force_status]
             /\ ret' = o.result
    /\ UNCHANGED <<seed, config, scheduler, logger, schedule, next_cmd, pending_peak,
                   step_count, fault_injected, stop_submits, batch_remaining, pc,
                   finished>>

\* model.reset()
CallReset ==
    /\ pc = "model"
    /\ LET r == reset(model)
       IN  /\ model' = r.model
           /\ call' = [op |-> "reset"]
           /\ ret' = Some(r.pending_before)
    /\ UNCHANGED <<seed, config, scheduler, logger, schedule, next_cmd, pending_peak,
                   step_count, fault_injected, stop_submits, batch_remaining, pc,
                   finished>>

NextModel ==
    \/ CallSubmit
    \/ CallComplete
    \/ CallReset

SpecModel == InitModel /\ [][NextModel]_vars

\* The model driven by execute_run, or operated on its own
InitAny == Init \/ InitModel

NextAny ==
    \/ BreakLoop
    \/ LoopSubmit
    \/ LoopComplete
    \/ InjectTimeout
    \/ InjectReset
    \/ RunEnd
    \/ CallSubmit
    \/ CallComplete
    \/ CallReset

SpecAny == InitAny /\ [][NextAny]_vars

\* ------------------ model.rs: commands at and beyond the end of the storage

U64_MAX == <<255, 255, 255, 255, 255, 255, 255, 255>>

\* (lba, len) with lba + len = 1024, 1025, 1024 with len 0, 1025 with len 0, and
\* beyond the 64-bit range
RangeExtents ==
    {<<U64(1020), 4>>, <<U64(1021), 4>>, <<U64(1024), 0>>, <<U64(1025), 0>>, <<U64_MAX, 2>>}

RangeCommands ==
    UNION {{WRITE(e[1], e[2], U32(7)), READ(e[1], e[2]), WRITE_VISIBLE(e[1], e[2])} :
             e \in RangeExtents}

InitRange ==
    /\ LET st == RunStart([seed_id |-> "seed", commands |-> <<>>],
                          RunConfig("seed", U64(0), "FIFO", Infinite, "NONE", Infinite))
       IN  /\ seed = st.seed
           /\ config = st.config
           /\ model = st.model
           /\ scheduler = st.scheduler
           /\ logger = st.logger
           /\ schedule = st.schedule
           /\ next_cmd = st.next_cmd
           /\ pending_peak = st.pending_peak
           /\ step_count = st.step_count
           /\ fault_injected = st.fault_injected
           /\ stop_submits = st.stop_submits
           /\ batch_remaining = st.batch_remaining
    /\ pc = "range"
    /\ finished = <<>>
    /\ call = None
    /\ ret = None

\* model.submit(command)
RangeSubmit ==
    /\ pc = "range"
    /\ Len(model.submitted) < MaxRangeSubmits
    /\ \E command \in RangeCommands :
         LET sub == submit(model, command)
         IN  /\ model' = sub.model
             /\ call' = [op |-> "submit", command |-> command]
             /\ ret' = [cmd_id |-> sub.cmd_id, is_fence |-> sub.is_fence,
                        fence_id |-> sub.fence_id]
    /\ UNCHANGED <<seed, config, scheduler, logger, schedule, next_cmd, pending_peak,
                   step_count, fault_injected, stop_submits, batch_remaining, pc,
                   finished>>

\* model.complete(cmd_id, force_status); a panic of execute_command ends the program
RangeComplete ==
    /\ pc = "range"
    /\ \E cmd_id \in 0..MaxRangeSubmits, force_status \in ForcedStatuses :
         \E o \in complete(model, cmd_id, force_status) :
             /\ model' = o.model
             /\ call' = [op |-> "complete", cmd_id |-> cmd_id, force_status |-> force_status]
             /\ ret' = o.result
             /\ pc' = IF o.panicked THEN "panicked" ELSE pc
    /\ UNCHANGED <<seed, config, scheduler, logger, schedule, next_cmd, pending_peak,
                   step_count, fault_injected, stop_submits, batch_remaining, finished>>

NextRange ==
    \/ RangeSubmit
    \/ RangeComplete

SpecRange == InitRange /\ [][NextRange]_vars

\* submit, complete and reset on the commands of both families
InitStorage == InitModel \/ InitRange

NextStorage ==
    \/ CallSubmit
    \/ CallComplete
    \/ CallReset
    \/ RangeSubmit
    \/ RangeComplete

SpecStorage == InitStorage /\ [][NextStorage]_vars

\* ------------------------ runner.rs: execute_run on a seed of six READs

\* The seed of the reordering scenario: six READs.
ScenarioSeed ==
    [seed_id |-> "six", commands |-> [i \in 1..6 |-> READ(U64(0), 2)]]

ScenarioBounds == {Finite(2), Infinite}

ScenarioConfigs ==
    {RunConfig("six", U64(ss), p, k, f, Infinite) :
        ss \in 0..MaxScenarioSeed, p \in Policies, k \in ScenarioBounds, f \in FaultModes}

InitScenario ==
    /\ \E cfg \in ScenarioConfigs : EnterRun(ScenarioSeed, cfg)
    /\ finished = <<>>
    /\ call = None
    /\ ret = None

NextScenario ==
    \/ BreakLoop
    \/ LoopSubmit
    \/ LoopComplete
    \/ InjectTimeout
    \/ InjectReset
    \/ RunEnd

SpecScenario == InitScenario /\ [][NextScenario]_vars

\* ------------------------------------------------------- reading the log

Last(s) == s[Len(s)]

\* The lines of buf with event ev, in order
Events(buf, ev) == SelectSeq(buf, LAMBDA l : l.ev = ev)

\* The cmd_ids of a list of SUBMIT or COMPLETE lines, in order
CmdIds(lines) == [i \in DOMAIN lines |-> lines[i].cmd_id] \o <<>>

IsPrefix(s, t) == Len(s) <= Len(t) /\ s = SubSeq(t, 1, Len(s))

\* The positions of the lines of buf with event ev
Positions(buf, ev) == {i \in DOMAIN buf : buf[i].ev = ev}

TimeoutLines(buf) ==
    {i \in DOMAIN buf : buf[i].ev = "COMPLETE" /\ buf[i].status = "TIMEOUT"}

\* The largest number of commands pending at any point of the log buf, counted
\* from its SUBMIT and COMPLETE lines up to a RESET line.
RECURSIVE PeakOf(_, _, _, _)
PeakOf(buf, i, current, peak) ==
    IF i > Len(buf) \/ buf[i].ev = "RESET" THEN peak
    ELSE IF buf[i].ev = "SUBMIT"
         THEN PeakOf(buf, i + 1, current + 1, Max(peak, current + 1))
    ELSE IF buf[i].ev = "COMPLETE"
         THEN PeakOf(buf, i + 1, current - 1, peak)
    ELSE PeakOf(buf, i + 1, current, peak)

\* The largest value, over the prefixes of the log buf, of the number of SUBMIT
\* lines minus the number of COMPLETE lines minus the pending_before of the RESET
\* lines.
RECURSIVE OutstandingPeak(_, _, _, _)
OutstandingPeak(buf, i, current, peak) ==
    IF i > Len(buf) THEN peak
    ELSE IF buf[i].ev = "SUBMIT"
         THEN OutstandingPeak(buf, i + 1, current + 1, Max(peak, current + 1))
    ELSE IF buf[i].ev = "COMPLETE"
         THEN OutstandingPeak(buf, i + 1, current - 1, peak)
    ELSE IF buf[i].ev = "RESET"
         THEN OutstandingPeak(buf, i + 1, current - buf[i].pending_before, peak)
    ELSE OutstandingPeak(buf, i + 1, current, peak)

\* A COMPLETE line is written by the step from the current state to the next
Completes == Len(logger'.buffer) = Len(logger.buffer) + 1 /\ Last(logger'.buffer).ev = "COMPLETE"

\* A SUBMIT line is written by the step from the current state to the next
Submits ==
    Len(Events(logger'.buffer, "SUBMIT")) = Len(Events(logger.buffer, "SUBMIT")) + 1

\* ---------------------------------------------------------------- claims

\* C1: a finished run with fault_mode NONE and submit_window inf reports
\* pending_left = 0 at RUN_END, and its log holds exactly n_cmds SUBMIT lines and
\* exactly n_cmds COMPLETE lines, for every seed, policy, bound_k and schedule seed.
C1_DrainedWithoutFault ==
    (pc = "done" /\ config.fault_mode = "NONE" /\ config.submit_window = Infinite) =>
        /\ Last(logger.buffer).ev = "RUN_END"
        /\ Last(logger.buffer).pending_left = 0
        /\ Len(Events(logger.buffer, "SUBMIT")) = n_cmds
        /\ Len(Events(logger.buffer, "COMPLETE")) = n_cmds

C1_Witness ==
    /\ pc = "done" /\ config.fault_mode = "NONE" /\ config.submit_window = Infinite
    /\ n_cmds = MaxCmds
    /\ config.policy = "RANDOM"
    /\ Last(logger.buffer).pending_peak >= 2

\* C2: two finished runs of the same seed and the same RunConfig wrote the same
\* log lines and the same schedule steps, whatever runs came before either.
C2_RunsAreFunctionOfInputs ==
    \A i, j \in DOMAIN finished :
        (finished[i].seed = finished[j].seed /\ finished[i].config = finished[j].config) =>
            /\ finished[i].log = finished[j].log
            /\ finished[i].steps = finished[j].steps

C2_Witness ==
    /\ Len(finished) = 3
    /\ finished[1].seed = finished[3].seed /\ finished[1].config = finished[3].config
    /\ finished[2].config # finished[1].config
    /\ Len(finished[2].steps) >= 2
    /\ Len(finished[3].steps) >= 2

\* C3: get_candidates returns the first min(k+1, |P|) elements of the canonical
\* pending list P (all of P for inf, nothing for an empty P), and under a finite
\* bound k every COMPLETE is for a cmd_id whose index in P is at most
\* min(k, |P|-1), so that at most k older commands are pending when it completes.
C3_ReorderBound ==
    [][LET P == get_pending_canonical(model)
           k == config.bound_k
           width == IF k = Infinite THEN Len(P) ELSE Min(k[2] + 1, Len(P))
       IN  /\ get_candidates(scheduler, P) = SubSeq(P, 1, width)
           /\ (Completes /\ k # Infinite) =>
                 LET done == Last(logger'.buffer).cmd_id
                     index == Cardinality({c \in DOMAIN model.pending : c < done})
                 IN  /\ done \in DOMAIN model.pending
                     /\ P[index + 1] = done
                     /\ index <= Min(k[2], Len(P) - 1)
                     /\ index <= k[2]]_vars

C3_Witness ==
    /\ config.bound_k = Finite(1) /\ config.policy = "ADVERSARIAL"
    /\ Last(logger.buffer).ev = "COMPLETE"
    /\ \E older, newer \in DOMAIN model.pending :
          older < Last(logger.buffer).cmd_id /\ Last(logger.buffer).cmd_id < newer

\* C4: in every log, the SUBMIT line of a FENCE command is immediately followed by
\* the FENCE line with the fence_id assigned at that submit, and every FENCE line
\* is immediately preceded by the SUBMIT line of its FENCE command.
C4_FenceFollowsSubmit ==
    LET buf == logger.buffer
    IN  \A i \in DOMAIN buf :
           /\ (buf[i].ev = "SUBMIT" /\ buf[i].cmd_type = "FENCE") =>
                 /\ i < Len(buf)
                 /\ buf[i + 1].ev = "FENCE"
                 /\ model.submitted[buf[i].cmd_id + 1].fence_id = Some(buf[i + 1].fence_id)
                 /\ buf[i + 1].fence_id =
                       Cardinality({j \in 1..(i - 1) : buf[j].ev = "FENCE"})
           /\ buf[i].ev = "FENCE" =>
                 /\ i > 1
                 /\ buf[i - 1].ev = "SUBMIT"
                 /\ buf[i - 1].cmd_type = "FENCE"

C4_Witness ==
    \E i \in DOMAIN logger.buffer :
        /\ logger.buffer[i].ev = "FENCE" /\ logger.buffer[i].fence_id = 1
        /\ i < Len(logger.buffer) /\ logger.buffer[i + 1].ev = "COMPLETE"

\* C5: under a finite submit_window W the pending set never holds more than W
\* commands, a SUBMIT is made only while fewer than W are pending, and the
\* pending_peak of RUN_END is at most W.
C5_WindowBound ==
    [][config.submit_window # Infinite =>
          LET W == config.submit_window[2]
          IN  /\ pending_count(model) <= W
              /\ pending_count(model') <= W
              /\ Submits => pending_count(model) < W
              /\ pc' = "done" => Last(logger'.buffer).pending_peak <= W]_vars

C5_Witness ==
    /\ config.submit_window = Finite(2)
    /\ pc = "loop"
    /\ pending_count(model) = 2
    /\ next_cmd < n_cmds

\* C6: in a run with fault_mode RESET the log holds at most one RESET line, the
\* only line that follows it is RUN_END, which is written after it, and RUN_END
\* reports pending_left = 0 and the peak of the pending count before the reset.
C6_ResetEndsRun ==
    config.fault_mode = "RESET" =>
        LET buf == logger.buffer
            resets == Positions(buf, "RESET")
        IN  /\ Cardinality(resets) <= 1
            /\ \A i \in resets : \A j \in DOMAIN buf : j > i => buf[j].ev = "RUN_END"
            /\ resets # {} => pc \in {"end", "done"}
            /\ pc = "end" => ENABLED RunEnd
            /\ pc = "done" =>
                  /\ Last(buf).ev = "RUN_END"
                  /\ Cardinality(Positions(buf, "RUN_END")) = 1
                  /\ Last(buf).pending_left = 0
                  /\ Last(buf).pending_peak = PeakOf(buf, 1, 0, 0)

C6_Witness ==
    /\ pc = "done" /\ config.fault_mode = "RESET"
    /\ next_cmd < n_cmds
    /\ Last(logger.buffer).pending_peak = 2
    /\ \E i \in Positions(logger.buffer, "RESET") : logger.buffer[i].pending_before = 1

\* C7: in a run with fault_mode TIMEOUT at most one COMPLETE line has status
\* TIMEOUT; a finished run has exactly one when the seed is not empty and the
\* submit_window is not 0, and none otherwise; after that line the log holds
\* only COMPLETE lines and RUN_END, and no SUBMIT line.
C7_TimeoutStopsSubmits ==
    config.fault_mode = "TIMEOUT" =>
        LET buf == logger.buffer
            timeouts == TimeoutLines(buf)
            injectable == n_cmds >= 1 /\ config.submit_window # Finite(0)
        IN  /\ Cardinality(timeouts) <= 1
            /\ pc = "done" => Cardinality(timeouts) = IF injectable THEN 1 ELSE 0
            /\ \A i \in timeouts : \A j \in DOMAIN buf :
                  j > i => buf[j].ev \in {"COMPLETE", "RUN_END"}

C7_Witness ==
    /\ pc = "done" /\ config.fault_mode = "TIMEOUT"
    /\ \E i \in TimeoutLines(logger.buffer) :
          i < Len(logger.buffer) /\ logger.buffer[i + 1].ev = "COMPLETE"

\* C7 as stated: every finished run with fault_mode TIMEOUT has exactly one
\* COMPLETE line with status TIMEOUT.
C7_ExactlyOneTimeout ==
    (pc = "done" /\ config.fault_mode = "TIMEOUT") =>
        Cardinality(TimeoutLines(logger.buffer)) = 1

\* C8: with policy FIFO, bound_k = 0 and fault_mode NONE the cmd_ids of the
\* COMPLETE lines are, in order, the cmd_ids of the SUBMIT lines: a prefix of them
\* while the run goes on and all of them when it has finished.
C8_FifoCompletesInSubmitOrder ==
    (config.policy = "FIFO" /\ config.bound_k = Finite(0) /\ config.fault_mode = "NONE") =>
        LET submitted == CmdIds(Events(logger.buffer, "SUBMIT"))
            completed == CmdIds(Events(logger.buffer, "COMPLETE"))
        IN  /\ IsPrefix(completed, submitted)
            /\ pc = "done" =>
                  /\ completed = submitted
                  /\ config.submit_window # Finite(0) => Len(completed) = n_cmds

C8_Witness ==
    /\ config.policy = "FIFO" /\ config.bound_k = Finite(0) /\ config.fault_mode = "NONE"
    /\ pc = "loop"
    /\ pending_count(model) >= 2
    /\ Len(Events(logger.buffer, "COMPLETE")) >= 1

\* C9: with policy ADVERSARIAL, bound_k = inf and fault_mode NONE every completion
\* step completes the largest cmd_id of the pending set.
C9_AdversarialTakesNewest ==
    [][(/\ config.policy = "ADVERSARIAL" /\ config.bound_k = Infinite
        /\ config.fault_mode = "NONE"
        /\ Completes) =>
          /\ model.pending # <<>>
          /\ \A c \in DOMAIN model.pending : c <= Last(logger'.buffer).cmd_id
          /\ Last(logger'.buffer).cmd_id \in DOMAIN model.pending
          /\ Last(logger'.buffer).cmd_id = Last(get_pending_canonical(model))]_vars

C9_Witness ==
    /\ config.policy = "ADVERSARIAL" /\ config.bound_k = Infinite
    /\ config.fault_mode = "NONE"
    /\ Last(logger.buffer).ev = "COMPLETE"
    /\ Last(logger.buffer).cmd_id = 2
    /\ DOMAIN model.pending = {0, 1}

\* C10: pick_next returns none on an empty pending list; on a non-empty one the
\* returned cmd_id is pending[pick_index]; FIFO returns index 0 and the smallest
\* cmd_id, ADVERSARIAL the last index of the candidate slice and the largest
\* cmd_id inside the bound_k window; neither changes the state of the generator.
C10_PickNext ==
    pc = "returned" =>
        LET P == call.pending
            before == call.scheduler
            k == before.bound_k
            width == IF k = Infinite THEN Len(P) ELSE Min(k[2] + 1, Len(P))
        IN  /\ (ret = None) <=> (P = <<>>)
            /\ ret # None =>
                  /\ ret[1].pick_index \in 0..(width - 1)
                  /\ ret[1].cmd_id = P[ret[1].pick_index + 1]
            /\ (ret # None /\ before.policy = "FIFO") =>
                  /\ ret[1].pick_index = 0
                  /\ \A i \in 1..width : ret[1].cmd_id <= P[i]
            /\ (ret # None /\ before.policy = "ADVERSARIAL") =>
                  /\ ret[1].pick_index = width - 1
                  /\ \A i \in 1..width : P[i] <= ret[1].cmd_id
            /\ before.policy \in {"FIFO", "ADVERSARIAL"} => scheduler.rng = before.rng
            /\ P = <<>> => scheduler = before

C10_Witness ==
    /\ pc = "returned"
    /\ call.scheduler.policy = "ADVERSARIAL" /\ call.scheduler.bound_k = Finite(1)
    /\ Len(call.pending) = 3
    /\ ret # None /\ ret[1].pick_index = 1 /\ ret[1].cmd_id = call.pending[2]

C12_BatchedFifoWithinBatch ==
    config.policy = "BATCHED" =>
        \A i \in DOMAIN scheduler.decisions : scheduler.decisions[i].pick_index = 0

\* C13: a FENCE is an ordering barrier: when the FENCE or a command submitted
\* after it completes, every command submitted before the FENCE has completed.
C13_FenceIsBarrier ==
    LET buf == logger.buffer
        fences == {buf[i].cmd_id : i \in {j \in Positions(buf, "SUBMIT") : buf[j].cmd_type = "FENCE"}}
    IN  \A i \in Positions(buf, "COMPLETE") : \A f \in fences :
           buf[i].cmd_id >= f =>
              \A c \in 0..(f - 1) :
                 \E j \in 1..(i - 1) : buf[j].ev = "COMPLETE" /\ buf[j].cmd_id = c

\* C14: after every submit, complete and reset of the model,
\* |pending| + |completed| + commands_lost_to_reset = |submitted|.
C14_Accounting ==
    pending_count(model) + Len(model.completed) + model.commands_lost_to_reset
        = Len(model.submitted)

\* C15: next_cmd_id = |submitted|; the j-th submitted command has cmd_id j-1 (and
\* the j-th SUBMIT line of a run carries cmd_id j-1 and the type of
\* seed.commands[j-1]); get_pending_canonical is strictly ascending and lists the
\* pending cmd_ids in the order of their submission.
C15_DenseIdsCanonicalOrder ==
    LET P == get_pending_canonical(model)
        lines == Events(logger.buffer, "SUBMIT")
    IN  /\ model.next_cmd_id = Len(model.submitted)
        /\ \A j \in DOMAIN model.submitted : model.submitted[j].cmd_id = j - 1
        /\ \A i \in 1..(Len(P) - 1) : P[i] < P[i + 1]
        /\ {P[i] : i \in DOMAIN P} = DOMAIN model.pending
        /\ P = CmdIds(SelectSeq(model.submitted, LAMBDA c : c.cmd_id \in DOMAIN model.pending))
        /\ \A c \in DOMAIN model.pending : model.pending[c] = c
        /\ (pc = "model" /\ call # None /\ call.op = "submit") =>
              /\ ret.cmd_id = Len(model.submitted) - 1
              /\ Last(model.submitted).command = call.command
        /\ pc # "model" =>
              /\ Len(lines) = Len(model.submitted)
              /\ \A j \in DOMAIN lines :
                    /\ lines[j].cmd_id = j - 1
                    /\ lines[j].cmd_type = seed.commands[j].type

C15_Witness ==
    /\ pc = "model" /\ model.had_reset
    /\ call # None /\ call.op = "submit"
    /\ DOMAIN model.pending = {1, 2}
    /\ Len(model.completed) = 0

\* C16: submit returns a fence_id exactly for a FENCE; the j-th FENCE submitted
\* gets fence_id j-1, resets or not; fence_tracking[fence_id] holds the cmd_id of
\* that FENCE as commands_before, and no later operation changes it.
C16_FenceIds ==
    [][LET fences == SelectSeq(model.submitted, LAMBDA c : c.command.type = "FENCE")
       IN  /\ (call # None /\ call.op = "submit") =>
                 /\ (ret.fence_id # None) <=> (call.command.type = "FENCE")
                 /\ ret.is_fence <=> (call.command.type = "FENCE")
                 /\ ret.fence_id = Last(model.submitted).fence_id
           /\ \A j \in DOMAIN model.submitted :
                 model.submitted[j].command.type # "FENCE" =>
                     model.submitted[j].fence_id = None
           /\ \A j \in DOMAIN fences : fences[j].fence_id = Some(j - 1)
           /\ model.current_fence_id = Len(fences)
           /\ DOMAIN model.fence_tracking = 0..(Len(fences) - 1)
           /\ \A j \in DOMAIN fences :
                 model.fence_tracking[j - 1][1] = fences[j].cmd_id
           /\ \A fid \in DOMAIN model.fence_tracking :
                 /\ fid \in DOMAIN model'.fence_tracking
                 /\ model'.fence_tracking[fid][1] = model.fence_tracking[fid][1]]_vars

C16_Witness ==
    /\ pc = "model" /\ model.had_reset /\ model.commands_lost_to_reset = 1
    /\ call # None /\ call.op = "submit"
    /\ ret.fence_id = Some(1) /\ ret.cmd_id = 2
    /\ model.fence_tracking[1] = <<2, 0>>

\* C17: the pending_peak of the model never decreases and is never below
\* |pending|, over every submit, complete and reset; the pending_peak of RUN_END
\* is at least the largest value reached by (SUBMIT lines so far - COMPLETE lines
\* so far - pending_before of the RESET lines so far).
C17_PeakIsHighWaterMark ==
    [][/\ model.pending_peak >= pending_count(model)
       /\ model'.pending_peak >= pending_count(model')
       /\ model'.pending_peak >= model.pending_peak
       /\ pending_peak' >= pending_peak
       /\ pc' = "done" =>
             /\ Last(logger'.buffer).ev = "RUN_END"
             /\ Last(logger'.buffer).pending_peak >= OutstandingPeak(logger'.buffer, 1, 0, 0)
             /\ Last(logger'.buffer).pending_peak >= model'.pending_peak]_vars

C17_Witness ==
    /\ pc = "done" /\ Positions(logger.buffer, "RESET") # {}
    /\ Last(logger.buffer).pending_peak = 2
    /\ model.pending_peak = 2
    /\ pending_count(model) = 0
    /\ Len(model.completed) = 1

\* C18: at every point of a run the local peak of the engine equals the
\* pending_peak of the model, and the pending_peak of RUN_END is exactly the
\* largest |pending| seen right after a SUBMIT (0 when nothing was submitted).
C18_ReportedPeakIsExact ==
    /\ pending_peak = model.pending_peak
    /\ pending_peak = PeakOf(logger.buffer, 1, 0, 0)
    /\ pc = "done" =>
          /\ Last(logger.buffer).ev = "RUN_END"
          /\ Last(logger.buffer).pending_peak = PeakOf(logger.buffer, 1, 0, 0)
          /\ Last(logger.buffer).pending_peak = pending_peak
          /\ Events(logger.buffer, "SUBMIT") = <<>> => Last(logger.buffer).pending_peak = 0

C18_Witness ==
    /\ pc = "done" /\ n_cmds = 3 /\ config.fault_mode = "NONE"
    /\ config.submit_window = Infinite
    /\ Last(logger.buffer).pending_peak = 2

\* The commands of the results of m.completed with status OK, in order
CompletedOk(m) ==
    LET ok == SelectSeq(m.completed, LAMBDA c : c.status = "OK")
    IN  [i \in DOMAIN ok |-> m.submitted[ok[i].cmd_id + 1].command] \o <<>>

\* The fold hash = hash * 31 + word over n words equal to word, from 0
RECURSIVE HashOfRepeated(_, _, _)
HashOfRepeated(word, n, hash) ==
    IF n = 0 THEN hash
    ELSE HashOfRepeated(word, n - 1, wrapping_add(wrapping_mul(hash, U32(31)), word))

\* The model has just completed, without a forced status, a READ of words 0..3
ReadCompleted ==
    /\ pc = "model" /\ call # None /\ call.op = "complete"
    /\ call.force_status = None /\ ret # None
    /\ model.submitted[call.cmd_id + 1].command = READ(U64(0), 4)

\* The commands completed with status OK before the one completed last
CompletedOkBefore == SubSeq(CompletedOk(model), 1, Len(CompletedOk(model)) - 1)

\* C19: a READ{0,4} completing after WRITE{0,4,123} has completed, with no
\* WRITE_VISIBLE completed yet, returns the hash of [123, 123, 123, 123].
C19_ReadSeesCompletedWrite ==
    (/\ ReadCompleted
     /\ \E i \in DOMAIN CompletedOkBefore : CompletedOkBefore[i].type = "WRITE"
     /\ \A i \in DOMAIN CompletedOkBefore : CompletedOkBefore[i].type # "WRITE_VISIBLE") =>
        ret[1].output = HashOfRepeated(U32(123), 4, ZERO32)

C21_ReadHashOfPattern ==
    LET done == CompletedOkBefore
    IN  (/\ ReadCompleted
         /\ \E i, j \in DOMAIN done :
               i < j /\ done[i].type = "WRITE" /\ done[j].type = "WRITE_VISIBLE") =>
            /\ ret[1].status = "OK"
            /\ ret[1].output = U32(3786432)
            /\ ret[1].output = HashOfRepeated(U32(123), 4, ZERO32)
            /\ ToNat(ret[1].output) = (((0 * 31 + 123) * 31 + 123) * 31 + 123) * 31 + 123
            /\ \A i \in 0..3 : Word(model.dev_storage, i) = U32(123)

C21_Witness ==
    /\ ReadCompleted
    /\ CompletedOkBefore = <<WRITE(U64(0), 4, U32(123)), WRITE_VISIBLE(U64(0), 4)>>
    /\ ret[1].output = U32(3786432)

\* C21 as stated: the out of that READ is 3937934.
C21_OutIs3937934 ==
    LET done == CompletedOkBefore
    IN  (/\ ReadCompleted
         /\ \E i, j \in DOMAIN done :
               i < j /\ done[i].type = "WRITE" /\ done[j].type = "WRITE_VISIBLE") =>
            ret[1].output = U32(3937934)

\* The COMPLETE lines of the log of the run, in order
CompleteLines == Events(logger.buffer, "COMPLETE")

\* The run of the reordering scenario: ADVERSARIAL, bound_k = 2, no fault
AdversarialScenario ==
    /\ seed = ScenarioSeed
    /\ config.policy = "ADVERSARIAL" /\ config.bound_k = Finite(2)
    /\ config.fault_mode = "NONE" /\ config.submit_window = Infinite

\* C22 as stated: in the run of six READs under ADVERSARIAL, bound_k = 2, NONE,
\* window inf, the first completion is of cmd_id 2 and the second of cmd_id 3,
\* for every schedule seed.
C22_CompletesTwoThenThree ==
    AdversarialScenario =>
        /\ Len(CompleteLines) >= 1 => CompleteLines[1].cmd_id = 2
        /\ Len(CompleteLines) >= 2 => CompleteLines[2].cmd_id = 3

\* C22: in that run every completion step has as candidates the first
\* min(3, |pending|) entries of the canonical pending list and completes the last
\* of them; a step with candidates [0,1,2] completes 2 and one with candidates
\* [0,1,3] completes 3.  The submits and completions are interleaved by the coin
\* flips of the schedule seed, so the first completion is of cmd_id 2 only when
\* three commands were submitted before it.
C22_AdversarialScenario ==
    [][(AdversarialScenario /\ Completes) =>
          LET pending == get_pending_canonical(model)
              candidates == get_candidates(scheduler, pending)
              done == Last(logger'.buffer).cmd_id
          IN  /\ candidates = SubSeq(pending, 1, Min(3, Len(pending)))
              /\ done = Last(candidates)
              /\ Last(scheduler'.decisions) =
                    [pick_index |-> Len(candidates) - 1, cmd_id |-> done]
              /\ candidates = <<0, 1, 2>> => done = 2
              /\ candidates = <<0, 1, 3>> => done = 3
              /\ (Len(Events(logger.buffer, "COMPLETE")) = 0 /\ model.next_cmd_id >= 3) =>
                    done = 2
              /\ (Len(Events(logger.buffer, "COMPLETE")) = 0 /\ model.next_cmd_id < 3) =>
                    done = model.next_cmd_id - 1]_vars

C22_Witness ==
    /\ AdversarialScenario
    /\ Len(CompleteLines) >= 2
    /\ CompleteLines[1].cmd_id = 2
    /\ CompleteLines[2].cmd_id = 3

\* C23: complete(cmd_id, _) for a cmd_id that is not pending (never submitted,
\* already completed, or lost to a reset) returns none and leaves the whole model
\* as it was; for a pending cmd_id it returns a result for that cmd_id.
C23_UnknownIdIgnored ==
    [][(pc = "model" /\ call' # None /\ call'.op = "complete") =>
          IF call'.cmd_id \in DOMAIN model.pending
          THEN /\ ret' # None /\ ret'[1].cmd_id = call'.cmd_id
               /\ model' # model
          ELSE /\ ret' = None
               /\ model' = model]_vars

\* complete has returned none for a command that a reset had removed
C23_Witness ==
    /\ pc = "model" /\ call # None /\ call.op = "complete"
    /\ ret = None
    /\ model.had_reset /\ model.commands_lost_to_reset > 0
    /\ call.cmd_id < model.next_cmd_id
    /\ \A i \in DOMAIN model.completed : model.completed[i].cmd_id # call.cmd_id
    /\ Len(model.completed) > 0

\* The command of the complete call made last
CompletedCommand == model.submitted[call.cmd_id + 1].command

\* lba + len of a command is beyond the 64-bit range
BeyondU64(command) == command.lba = U64_MAX /\ command.len > 0

\* C24: a non-forced completion of a WRITE, READ or WRITE_VISIBLE with
\* lba + len > 1024 (lba + len within the 64-bit range) has status ERR and out = 0,
\* changes neither host_storage nor dev_storage, and still removes the command
\* from pending and appends it to completed; with lba + len <= 1024, lba + len =
\* 1024 and len = 0 included, the status is OK.
C24_OutOfRangeIsErr ==
    [][(/\ pc = "range" /\ pc' = "range"
        /\ call' # None /\ call'.op = "complete" /\ call'.force_status = None
        /\ call'.cmd_id \in DOMAIN model.pending
        /\ ~BeyondU64(model.submitted[call'.cmd_id + 1].command)) =>
          LET command == model.submitted[call'.cmd_id + 1].command
              end == ToNat(command.lba) + command.len
          IN  /\ ret' # None
              /\ DOMAIN model'.pending = DOMAIN model.pending \ {call'.cmd_id}
              /\ model'.completed = Append(model.completed, ret'[1])
              /\ ret'[1].cmd_id = call'.cmd_id
              /\ IF end > 1024
                 THEN /\ ret'[1].status = "ERR"
                      /\ ret'[1].output = ZERO32
                      /\ model'.host_storage = model.host_storage
                      /\ model'.dev_storage = model.dev_storage
                 ELSE /\ ret'[1].status = "OK"
                      /\ command.type = "WRITE" =>
                            \A i \in ToNat(command.lba)..(end - 1) :
                               Word(model'.host_storage, i) = command.pattern]_vars

\* The two sides of the limit have been seen: a WRITE ending at 1024 completed OK
\* and filled its words, and a READ with lba + len = 1025 and len = 0 got ERR.
C24_Witness ==
    /\ pc = "range" /\ Len(model.completed) = 2
    /\ model.submitted[1].command = WRITE(U64(1020), 4, U32(7))
    /\ model.submitted[2].command = READ(U64(1025), 0)
    /\ model.completed[1] = [cmd_id |-> 0, status |-> "OK", output |-> ZERO32]
    /\ model.completed[2] = [cmd_id |-> 1, status |-> "ERR", output |-> ZERO32]
    /\ DOMAIN model.host_storage = 1020..1023

\* C25 as stated: completing a WRITE, READ or WRITE_VISIBLE whose lba + len is
\* beyond the 64-bit range yields ERR with out = 0 and never panics.
C25_OverflowIsErr ==
    /\ pc # "panicked"
    /\ (/\ pc = "range" /\ call # None /\ call.op = "complete"
        /\ call.force_status = None /\ ret # None
        /\ BeyondU64(CompletedCommand)) =>
           /\ ret[1].status = "ERR"
           /\ ret[1].output = ZERO32

\* The cmd_ids submitted that are neither pending nor completed
Lost(m) ==
    {c \in 0..(m.next_cmd_id - 1) :
        /\ c \notin DOMAIN m.pending
        /\ \A i \in DOMAIN m.completed : m.completed[i].cmd_id # c}

\* C26: reset returns the number of commands pending at the call, sets
\* commands_lost_to_reset to it, empties pending and sets had_reset, and leaves
\* submitted, completed, next_cmd_id, current_fence_id, pending_peak, host_storage
\* and dev_storage (and fence_tracking) as they were; a later submit continues
\* with the next cmd_id, and a command lost to the reset stays lost: complete
\* returns none for it.
C26_ResetFrame ==
    [][pc = "model" =>
          /\ (call' # None /\ call'.op = "reset") =>
                /\ ret' = Some(pending_count(model))
                /\ model'.commands_lost_to_reset = pending_count(model)
                /\ model'.pending = <<>>
                /\ model'.had_reset
                /\ model'.submitted = model.submitted
                /\ model'.completed = model.completed
                /\ model'.next_cmd_id = model.next_cmd_id
                /\ model'.current_fence_id = model.current_fence_id
                /\ model'.pending_peak = model.pending_peak
                /\ model'.host_storage = model.host_storage
                /\ model'.dev_storage = model.dev_storage
                /\ model'.fence_tracking = model.fence_tracking
                /\ Lost(model') = Lost(model) \cup DOMAIN model.pending
          /\ (call' # None /\ call'.op = "submit") =>
                /\ ret'.cmd_id = model.next_cmd_id
                /\ ret'.cmd_id = Len(model.submitted)
                /\ model'.next_cmd_id = model.next_cmd_id + 1
                /\ model'.had_reset = model.had_reset
                /\ Lost(model') = Lost(model)
          /\ (call' # None /\ call'.op = "complete") =>
                /\ call'.cmd_id \in Lost(model) => ret' = None /\ model' = model
                /\ Lost(model') = Lost(model)
                /\ model'.had_reset = model.had_reset]_vars

\* After a reset that lost command 0, the next submit got cmd_id 1, and
\* complete(0) returned none.
C26_Witness ==
    /\ pc = "model" /\ call # None /\ call.op = "complete" /\ call.cmd_id = 0
    /\ ret = None
    /\ model.had_reset /\ model.commands_lost_to_reset = 1
    /\ Lost(model) = {0}
    /\ DOMAIN model.pending = {1}
    /\ model.next_cmd_id = 2

\* The positions of the injected faults in the log buf: the COMPLETE lines with
\* status TIMEOUT and the RESET lines
FaultLines(buf) == TimeoutLines(buf) \cup Positions(buf, "RESET")

\* The FAULT steps of the schedule record
FaultSteps == {i \in DOMAIN schedule.steps : schedule.steps[i].type = "FAULT"}

\* C27: with fault_mode TIMEOUT or RESET, n_cmds >= 1 and submit_window >= 1 the
\* fault is injected in every run, exactly once, by the first COMPLETE action
\* taken at step_count >= n_cmds / 2 (floor): exactly floor(n_cmds / 2) COMPLETE
\* lines, none of them a TIMEOUT, precede the TIMEOUT COMPLETE or the RESET line,
\* the at_step recorded is floor(n_cmds / 2), and with n_cmds = 1 the fault takes
\* the place of the first completion.
C27_FaultAtHalf ==
    (pc \in {"loop", "end", "done"} /\ config.fault_mode # "NONE" /\ n_cmds >= 1
        /\ config.submit_window # Finite(0)) =>
       LET buf == logger.buffer
           faults == FaultLines(buf)
           half == n_cmds \div 2
       IN  /\ Cardinality(faults) <= 1
           /\ Cardinality(faults) = 1 <=> fault_injected
           /\ Cardinality(FaultSteps) = Cardinality(faults)
           /\ pc \in {"end", "done"} => fault_injected
           /\ ~fault_injected =>
                 /\ step_count <= half
                 /\ Len(Events(buf, "COMPLETE")) = step_count
           /\ \A i \in faults :
                 /\ Cardinality({j \in Positions(buf, "COMPLETE") : j < i}) = half
                 /\ buf[i].ev = IF config.fault_mode = "TIMEOUT" THEN "COMPLETE" ELSE "RESET"
           /\ \A i \in FaultSteps :
                 /\ schedule.steps[i].at_step = half
                 /\ schedule.steps[i].fault_type = config.fault_mode
                 /\ i = half + 1
           /\ (n_cmds = 1 /\ faults # {}) =>
                 \A j \in Positions(buf, "COMPLETE") \cup Positions(buf, "RESET") :
                    \E i \in faults : i <= j

\* A finished run of three commands whose TIMEOUT came after one normal COMPLETE
\* and was followed by another one
C27_Witness ==
    /\ pc = "done" /\ n_cmds = 3 /\ config.fault_mode = "TIMEOUT"
    /\ \E i \in TimeoutLines(logger.buffer) :
          /\ Cardinality({j \in Positions(logger.buffer, "COMPLETE") : j < i}) = 1
          /\ \E j \in Positions(logger.buffer, "COMPLETE") : j > i
    /\ \E i \in FaultSteps : schedule.steps[i].at_step = 1

\* C28: a COMPLETE line with status TIMEOUT is written only by the fault
\* injection of fault_mode TIMEOUT, never in a run with fault_mode NONE or RESET.
\* The injected TIMEOUT completes the smallest pending cmd_id with out = 0 and
\* leaves both storages as they were; it takes no pick from the scheduler and
\* draws nothing from the generator (which moves in that iteration by the coin
\* flip of the submit-or-complete decision at most); step_count goes up by one,
\* and the TIMEOUT line is the only line of that iteration.
C28_TimeoutOnlyInjected ==
    [][/\ config.fault_mode \in {"NONE", "RESET"} =>
             /\ TimeoutLines(logger'.buffer) = {}
             /\ \A i \in DOMAIN model'.completed : model'.completed[i].status # "TIMEOUT"
       /\ (pc = "loop" /\ Completes /\ Last(logger'.buffer).status = "TIMEOUT") =>
             LET line == Last(logger'.buffer)
                 flipped == submit_ok /\ complete_ok
                               /\ ~(config.policy = "BATCHED" /\ batch_remaining > 0)
             IN  /\ config.fault_mode = "TIMEOUT"
                 /\ ~fault_injected /\ fault_injected'
                 /\ line.cmd_id = get_pending_canonical(model)[1]
                 /\ \A c \in DOMAIN model.pending : line.cmd_id <= c
                 /\ line.out = ZERO32
                 /\ model'.host_storage = model.host_storage
                 /\ model'.dev_storage = model.dev_storage
                 /\ DOMAIN model'.pending = DOMAIN model.pending \ {line.cmd_id}
                 /\ Len(model'.completed) = Len(model.completed) + 1
                 /\ scheduler'.decisions = scheduler.decisions
                 /\ scheduler'.rng =
                       IF flipped THEN next_u64(scheduler.rng).rng ELSE scheduler.rng
                 /\ step_count' = step_count + 1
                 /\ schedule'.steps =
                       Append(schedule.steps, [type |-> "FAULT", fault_type |-> "TIMEOUT",
                                               at_step |-> step_count])
                 /\ batch_remaining' = batch_remaining]_vars

\* A TIMEOUT has just been injected under ADVERSARIAL while a newer command was
\* pending: the scheduler would have picked the newer one.
C28_Witness ==
    /\ pc = "loop" /\ config.policy = "ADVERSARIAL" /\ config.bound_k = Infinite
    /\ Last(logger.buffer).ev = "COMPLETE" /\ Last(logger.buffer).status = "TIMEOUT"
    /\ pending_count(model) >= 1
    /\ \A c \in DOMAIN model.pending : Last(logger.buffer).cmd_id < c
    /\ step_count = 2

\* The generator state after k draws from state
RECURSIVE Advance(_, _)
Advance(state, k) ==
    IF k = 0 THEN state
    ELSE The({Advance(z, k - 1) : z \in {wrapping_add(state, GOLDEN_GAMMA)}})

\* The number of draws made so far in the run (two per iteration at most)
DrawsMade ==
    CHOOSE k \in 0..(4 * n_cmds + 2) : Advance(config.schedule_seed, k) = scheduler.rng.state

\* The iterations of the run, read from its log: one per SUBMIT, COMPLETE or
\* RESET line.  BothLegal(buf, i) says that submit and complete were both legal
\* at the head of the iteration that wrote line i.
IterationLines(buf) == {i \in DOMAIN buf : buf[i].ev \in {"SUBMIT", "COMPLETE", "RESET"}}

BothLegal(buf, i) ==
    LET before == SubSeq(buf, 1, i - 1)
        submits == Cardinality(Positions(before, "SUBMIT"))
        pending == submits - Cardinality(Positions(before, "COMPLETE"))
    IN  /\ pending > 0
        /\ below_window(pending, config.submit_window)
        /\ submits < n_cmds
        /\ TimeoutLines(before) = {}

\* C29: the generator moves only (a) by one coin flip in an iteration in which
\* submit and complete are both legal and no BATCHED burst is under way, and (b)
\* by one draw per pick under RANDOM or BATCHED; an iteration in which one action
\* only is legal draws nothing.  Under FIFO and ADVERSARIAL the draws of a run
\* are as many as its iterations with both actions legal.  In an iteration with
\* both draws the coin flip is the first one.
C29_DrawsOfTheRun ==
    [][pc = "loop" =>
          LET flipped == submit_ok /\ complete_ok
                            /\ ~(config.policy = "BATCHED" /\ batch_remaining > 0)
              picked == Len(scheduler'.decisions) = Len(scheduler.decisions) + 1
              drawn == picked /\ config.policy \in {"RANDOM", "BATCHED"}
              flips == IF flipped THEN 1 ELSE 0
              draws == IF drawn THEN 1 ELSE 0
              coin == next_u64(scheduler.rng)
              candidates == get_candidates(scheduler, get_pending_canonical(model))
              buf == logger'.buffer
          IN  /\ scheduler'.rng.state = Advance(scheduler.rng.state, flips + draws)
              /\ ~(submit_ok /\ complete_ok) => scheduler'.rng = scheduler.rng \/ drawn
              /\ config.policy \in {"FIFO", "ADVERSARIAL"} =>
                    /\ scheduler'.rng.state = Advance(scheduler.rng.state, flips)
                    /\ DrawsMade' = Cardinality({i \in IterationLines(buf) : BothLegal(buf, i)})
              /\ config.policy = "RANDOM" =>
                    DrawsMade' = Cardinality({i \in IterationLines(buf) : BothLegal(buf, i)})
                                    + Len(scheduler'.decisions)
              /\ (flipped /\ pc' = "loop") => (Submits <=> coin.value[1] % 2 = 0)
              /\ (flipped /\ drawn) =>
                    /\ coin.value[1] % 2 = 1
                    /\ Last(scheduler'.decisions).pick_index =
                          Mod(next_u64(coin.rng).value, Len(candidates))
              /\ (~flipped /\ drawn) =>
                    Last(scheduler'.decisions).pick_index =
                        Mod(coin.value, Len(candidates))]_vars

\* A finished FIFO run of three commands with two coin flips and more than two
\* iterations
C29_Witness ==
    /\ pc = "done" /\ config.policy = "FIFO" /\ n_cmds = 3
    /\ config.fault_mode = "NONE" /\ config.submit_window = Infinite
    /\ DrawsMade = 2
    /\ Cardinality(IterationLines(logger.buffer)) = 6

C31_RunTerminates ==
    /\ [][pc = "loop" =>
             LET before == Cardinality(IterationLines(logger.buffer))
                 after == Cardinality(IterationLines(logger'.buffer))
             IN  /\ pc' = "loop" =>
                       /\ after = before + 1
                       /\ ~(Submits /\ Completes)
                       /\ Positions(logger'.buffer, "RESET") = {}
                       /\ Submits => pending_count(model') = pending_count(model) + 1
                       /\ Completes => pending_count(model') = pending_count(model) - 1
                 /\ pc' = "end" =>
                       \/ after = before /\ logger' = logger
                       \/ after = before + 1 /\ Last(logger'.buffer).ev = "RESET"
                 /\ after <= 2 * n_cmds]_vars
    /\ [](pc = "done" =>
             /\ logger.buffer[1].ev = "RUN_HEADER"
             /\ Last(logger.buffer).ev = "RUN_END"
             /\ Cardinality(Positions(logger.buffer, "RUN_END")) = 1
             /\ Cardinality(Positions(logger.buffer, "RUN_HEADER")) = 1
             /\ Cardinality(IterationLines(logger.buffer)) <= 2 * n_cmds)
    /\ <>(pc = "done")

\* A run of three commands that took all of its 2 * n_cmds iterations, and a
\* run that a RESET ended
C31_Witness ==
    /\ pc = "done" /\ n_cmds = 3
    /\ \/ Cardinality(IterationLines(logger.buffer)) = 6
       \/ /\ Positions(logger.buffer, "RESET") # {}
          /\ logger.buffer[Len(logger.buffer) - 1].ev = "RESET"
    /\ Last(logger.buffer).ev = "RUN_END"

\* The positions of the lines of the log buf that record a decision of the
\* engine: the COMPLETE and the RESET lines
DecisionLines(buf) == Positions(buf, "COMPLETE") \cup Positions(buf, "RESET")

\* The k-th smallest element of the set of positions S
RECURSIVE Nth(_, _)
Nth(S, k) ==
    LET least == CHOOSE x \in S : \A y \in S : x <= y
    IN  IF k = 1 THEN least ELSE Nth(S \ {least}, k - 1)

\* C32: the steps of the schedule record are built in decision order. A step
\* that writes a COMPLETE line by a pick of the scheduler appends exactly one
\* CompletePick whose pick_index is the index (from 0) of the completed cmd_id in
\* the canonical pending list before the step; a step that injects a fault
\* (TIMEOUT COMPLETE line or RESET line) appends exactly one FAULT entry whose
\* at_step is the step counter before the step; no other step changes the list.
\* So the k-th entry belongs to the k-th of the COMPLETE and RESET lines, and the
\* number of entries is the number of COMPLETE lines plus that of RESET lines.
C32_ScheduleRecord ==
    /\ [][pc = "loop" =>
             LET buf == logger'.buffer
                 line == Last(buf)
                 wrote == Len(buf) = Len(logger.buffer) + 1
                 pending == get_pending_canonical(model)
             IN  /\ IsPrefix(schedule.steps, schedule'.steps)
                 /\ IF wrote /\ line.ev = "COMPLETE" /\ line.status # "TIMEOUT"
                    THEN /\ Len(schedule'.steps) = Len(schedule.steps) + 1
                         /\ Last(schedule'.steps).type = "CompletePick"
                         /\ Last(schedule'.steps).pick_index + 1 \in DOMAIN pending
                         /\ pending[Last(schedule'.steps).pick_index + 1] = line.cmd_id
                    ELSE IF wrote /\ line.ev \in {"COMPLETE", "RESET"}
                    THEN /\ schedule'.steps =
                              Append(schedule.steps,
                                     [type |-> "FAULT", fault_type |-> config.fault_mode,
                                      at_step |-> step_count])
                         /\ line.ev = "COMPLETE" <=> config.fault_mode = "TIMEOUT"
                    ELSE schedule'.steps = schedule.steps]_vars
    /\ [](pc \in {"loop", "end", "done"} =>
             LET buf == logger.buffer
                 lines == DecisionLines(buf)
             IN  /\ Len(schedule.steps) = Cardinality(lines)
                 /\ Len(schedule.steps) =
                      Len(Events(buf, "COMPLETE")) + Len(Events(buf, "RESET"))
                 /\ \A k \in DOMAIN schedule.steps :
                       schedule.steps[k].type = "FAULT" <=>
                          Nth(lines, k) \in FaultLines(buf))

\* A finished TIMEOUT run of three commands whose record is a pick, the fault at
\* step 1 preceded
\* by a pick of index 1 and followed by another pick
C32_Witness ==
    /\ pc = "done" /\ n_cmds = 3 /\ config.fault_mode = "TIMEOUT"
    /\ Len(schedule.steps) = 3
    /\ schedule.steps[2] = [type |-> "FAULT", fault_type |-> "TIMEOUT", at_step |-> 1]
    /\ schedule.steps[1].type = "CompletePick"
    /\ schedule.steps[1].pick_index = 1
\* C33: host_storage changes only in a non-forced completion of a WRITE with
\* lba + len <= 1024 and dev_storage only in a non-forced completion of a
\* WRITE_VISIBLE with lba + len <= 1024. submit, reset, the completion of a FENCE
\* or a READ, a completion with status ERR and a completion with a forced status
\* leave both storages as they were, and a forced completion returns the forced
\* status with out = 0.
C33_StorageFrame ==
    [][(pc \in {"model", "range"} /\ call' # None) =>
          LET host_changed == model'.host_storage # model.host_storage
              dev_changed == model'.dev_storage # model.dev_storage
              completes == call'.op = "complete" /\ call'.cmd_id \in DOMAIN model.pending
              command == model.submitted[model.pending[call'.cmd_id] + 1].command
              in_range == /\ command.type # "FENCE"
                          /\ ~BeyondU64(command)
                          /\ ToNat(command.lba) + command.len <= STORAGE_SIZE
              ran_ok == /\ completes /\ call'.force_status = None
                        /\ ret' # None /\ ret'[1].status = "OK"
          IN  /\ host_changed => ran_ok /\ command.type = "WRITE" /\ in_range
              /\ dev_changed => ran_ok /\ command.type = "WRITE_VISIBLE" /\ in_range
              /\ call'.op \in {"submit", "reset"} => ~host_changed /\ ~dev_changed
              /\ ~completes => ~host_changed /\ ~dev_changed
              /\ (completes /\ command.type \in {"FENCE", "READ"}) =>
                    ~host_changed /\ ~dev_changed
              /\ (completes /\ ret' # None /\ ret'[1].status = "ERR") =>
                    ~host_changed /\ ~dev_changed
              /\ (completes /\ call'.force_status # None) =>
                    /\ ~host_changed /\ ~dev_changed
                    /\ ret' # None
                    /\ ret'[1].status = call'.force_status[1]
                    /\ ret'[1].output = ZERO32]_vars

\* A WRITE ending at 1024 has filled its four words of host_storage, and the
\* WRITE_VISIBLE of the same words was then completed with a forced TIMEOUT:
\* dev_storage is still empty.
C33_Witness ==
    /\ pc = "range" /\ Len(model.completed) = 2
    /\ model.submitted[1].command = WRITE(U64(1020), 4, U32(7))
    /\ model.submitted[2].command = WRITE_VISIBLE(U64(1020), 4)
    /\ model.completed[1] = [cmd_id |-> 0, status |-> "OK", output |-> ZERO32]
    /\ model.completed[2] = [cmd_id |-> 1, status |-> "TIMEOUT", output |-> ZERO32]
    /\ call # None /\ call.op = "complete" /\ call.force_status = Some("TIMEOUT")
    /\ DOMAIN model.host_storage = 1020..1023
    /\ DOMAIN model.dev_storage = {}
\* The sum of the pending_before fields of the RESET lines of the log buf
RECURSIVE PendingBefore(_, _)
PendingBefore(buf, i) ==
    IF i > Len(buf) THEN 0
    ELSE (IF buf[i].ev = "RESET" THEN buf[i].pending_before ELSE 0) + PendingBefore(buf, i + 1)

\* The cmd_ids of the lines of the log buf with event ev
IdsOf(buf, ev) == {buf[i].cmd_id : i \in Positions(buf, ev)}

\* C34: in every run, whatever the fault mode, submit_window, policy and bound,
\* the number of SUBMIT lines is the number of COMPLETE lines plus the commands
\* still pending plus the pending_before of the RESET line (0 without one), and
\* no cmd_id has two COMPLETE lines. RUN_END reports pending_left = 0, so in a
\* finished run every submitted command was completed once or lost to the reset;
\* in a finished TIMEOUT run the completed cmd_ids are the submitted ones, of
\* which there may be fewer than n_cmds.
C34_SubmittedAccounted ==
    pc \in {"loop", "end", "done"} =>
       LET buf == logger.buffer
           submits == Len(Events(buf, "SUBMIT"))
           completes == Len(Events(buf, "COMPLETE"))
       IN  /\ submits = completes + pending_count(model) + PendingBefore(buf, 1)
           /\ Cardinality(IdsOf(buf, "COMPLETE")) = completes
           /\ IdsOf(buf, "COMPLETE") \subseteq IdsOf(buf, "SUBMIT")
           /\ submits <= n_cmds
           /\ Cardinality(Positions(buf, "RESET")) <= 1
           /\ Positions(buf, "RESET") = {} => PendingBefore(buf, 1) = 0
           /\ pc = "done" =>
                 /\ Last(buf).ev = "RUN_END"
                 /\ Last(buf).pending_left = 0
                 /\ pending_count(model) = 0
                 /\ submits = completes + PendingBefore(buf, 1)
                 /\ PendingBefore(buf, 1) =
                      Cardinality(IdsOf(buf, "SUBMIT") \ IdsOf(buf, "COMPLETE"))
                 /\ config.fault_mode # "RESET" =>
                       IdsOf(buf, "COMPLETE") = IdsOf(buf, "SUBMIT")

\* A finished TIMEOUT run of three commands that submitted only two of them and
\* completed both
C34_Witness ==
    /\ pc = "done" /\ n_cmds = 3 /\ config.fault_mode = "TIMEOUT"
    /\ Len(Events(logger.buffer, "SUBMIT")) = 2
    /\ Len(Events(logger.buffer, "COMPLETE")) = 2
    /\ Last(logger.buffer).pending_left = 0
\* C35: whenever the loop chooses the COMPLETE action, at least one command is
\* pending: pick_next on the pending list returns a decision, the TIMEOUT
\* injection completes a victim and writes its COMPLETE line, the RESET line has
\* pending_before >= 1, and every iteration that counts a completion step writes
\* a COMPLETE line. Under BATCHED batch_remaining <= |pending| at the start of
\* every iteration before a fault is injected.
C35_CompleteHasPending ==
    /\ [](pc = "loop" =>
             /\ (config.policy = "BATCHED" /\ ~fault_injected) =>
                    batch_remaining <= pending_count(model)
             /\ (~(~submit_ok /\ ~complete_ok) /\ choose_action.do_complete) =>
                    /\ pending_count(model) >= 1
                    /\ pick_next(choose_action.scheduler,
                                 get_pending_canonical(model)).decision # None)
    /\ [][pc = "loop" =>
             LET buf == logger'.buffer
                 wrote == Len(buf) = Len(logger.buffer) + 1
             IN  /\ step_count' # step_count =>
                       /\ wrote /\ Last(buf).ev = "COMPLETE"
                       /\ pending_count(model) >= 1
                       /\ pending_count(model') = pending_count(model) - 1
                 /\ (fault_injected' /\ ~fault_injected) =>
                       /\ pending_count(model) >= 1
                       /\ wrote
                       /\ IF config.fault_mode = "TIMEOUT"
                          THEN /\ Last(buf).ev = "COMPLETE" /\ Last(buf).status = "TIMEOUT"
                               /\ Last(buf).cmd_id = get_pending_canonical(model)[1]
                          ELSE /\ Last(buf).ev = "RESET"
                               /\ Last(buf).pending_before >= 1
                               /\ Last(buf).pending_before = pending_count(model)]_vars

\* A BATCHED burst that started on three pending commands has completed one of
\* them: two are pending and two completions are left in the burst.
C35_Witness ==
    /\ pc = "loop" /\ config.policy = "BATCHED" /\ ~fault_injected
    /\ config.fault_mode = "TIMEOUT"
    /\ batch_remaining = 2 /\ pending_count(model) = 2
    /\ step_count = 1
    /\ Len(Events(logger.buffer, "COMPLETE")) = 1
\* The cmd_ids of the completed list of the model m
CompletedIds(m) == {m.completed[i].cmd_id : i \in DOMAIN m.completed}

\* C36: each cmd_id has at most one COMPLETE line, and that line comes after the
\* SUBMIT line of the same cmd_id; no COMPLETE line follows a RESET line, so a
\* command that was pending at the RESET never gets one. In the model, complete
\* appends at most one result, for a cmd_id that was pending, and a cmd_id that
\* is neither pending nor completed (it was cleared by reset) stays so.
C36_CompletedAtMostOnce ==
    /\ [](pc \in {"loop", "end", "done"} =>
             LET buf == logger.buffer
             IN  /\ \A i \in Positions(buf, "COMPLETE") :
                       /\ \E j \in Positions(buf, "SUBMIT") :
                             j < i /\ buf[j].cmd_id = buf[i].cmd_id
                       /\ \A j \in Positions(buf, "COMPLETE") :
                             buf[j].cmd_id = buf[i].cmd_id => j = i
                       /\ \A j \in Positions(buf, "RESET") : i < j
                 /\ \A j \in Positions(buf, "RESET") :
                       buf[j].pending_before =
                          Cardinality(IdsOf(buf, "SUBMIT") \ IdsOf(buf, "COMPLETE")))
    /\ [](/\ Cardinality(CompletedIds(model)) = Len(model.completed)
          /\ CompletedIds(model) \subseteq 0..(model.next_cmd_id - 1)
          /\ CompletedIds(model) \cap DOMAIN model.pending = {})
    /\ [][/\ IsPrefix(model.completed, model'.completed)
          /\ Len(model'.completed) <= Len(model.completed) + 1
          /\ CompletedIds(model') \ CompletedIds(model) \subseteq DOMAIN model.pending
          /\ \A id \in 0..(model.next_cmd_id - 1) :
                (id \notin DOMAIN model.pending) =>
                    /\ id \notin DOMAIN model'.pending
                    /\ id \in CompletedIds(model') <=> id \in CompletedIds(model)]_vars

\* A finished RESET run of three commands: one was completed, the other two were
\* pending at the RESET and have no COMPLETE line.
C36_Witness ==
    /\ pc = "done" /\ n_cmds = 3 /\ config.fault_mode = "RESET"
    /\ Len(Events(logger.buffer, "SUBMIT")) = 3
    /\ Len(Events(logger.buffer, "COMPLETE")) = 1
    /\ \E j \in Positions(logger.buffer, "RESET") : logger.buffer[j].pending_before = 2
    /\ Cardinality(IdsOf(logger.buffer, "SUBMIT") \ IdsOf(logger.buffer, "COMPLETE")) = 2
\* s is strictly increasing
Increasing(s) == \A i, j \in DOMAIN s : i < j => s[i] < s[j]

\* C37: with bound_k = 0 under any policy, or with policy FIFO under any
\* bound_k, and in any fault mode, the cmd_ids of the COMPLETE lines, that of the
\* injected TIMEOUT included, are strictly increasing: they are, in order, the
\* first cmd_ids of the SUBMIT lines.
C37_OldestFirst ==
    (pc \in {"loop", "end", "done"}
        /\ ~(config.bound_k # Finite(0) /\ config.policy # "FIFO")) =>
       LET submitted == CmdIds(Events(logger.buffer, "SUBMIT"))
           completed == CmdIds(Events(logger.buffer, "COMPLETE"))
       IN  /\ Increasing(completed)
           /\ IsPrefix(completed, submitted)

\* A finished RANDOM run with bound_k = 0 in which two commands were pending when
\* the TIMEOUT was injected, and a normal completion followed it
C37_Witness ==
    /\ pc = "done" /\ config.policy = "RANDOM" /\ config.bound_k = Finite(0)
    /\ config.fault_mode = "TIMEOUT" /\ n_cmds = 3
    /\ \E i \in TimeoutLines(logger.buffer) :
          /\ logger.buffer[i + 1].ev = "COMPLETE"
          /\ logger.buffer[i - 1].ev = "SUBMIT"
          /\ logger.buffer[i].cmd_id + 1 = logger.buffer[i + 1].cmd_id
          /\ logger.buffer[i].cmd_id < logger.buffer[i - 1].cmd_id
\* C38: with submit_window = 0, or with a seed without commands, the first check
\* of the loop leaves it: nothing is submitted, the log is RUN_HEADER followed by
\* RUN_END with pending_left = 0 and pending_peak = 0, no fault is injected in
\* any fault mode (had_reset stays false, the schedule record has no step), and
\* the scheduler is as it was built: no value was drawn from its generator.
C38_NothingToSubmit ==
    /\ []((pc \in {"loop", "end", "done"}
              /\ ~(config.submit_window # Finite(0) /\ n_cmds # 0)) =>
             /\ model.submitted = <<>> /\ model.completed = <<>>
             /\ pending_count(model) = 0 /\ next_cmd = 0
             /\ ~fault_injected /\ ~model.had_reset /\ ~stop_submits
             /\ schedule.steps = <<>>
             /\ step_count = 0
             /\ scheduler = new_scheduler(config)
             /\ DrawsMade = 0
             /\ logger.buffer[1].ev = "RUN_HEADER"
             /\ IF pc = "done"
                THEN /\ Len(logger.buffer) = 2
                     /\ logger.buffer[2] =
                          [ev |-> "RUN_END", pending_left |-> 0, pending_peak |-> 0]
                ELSE Len(logger.buffer) = 1)
    /\ [][(pc = "loop" /\ ~(config.submit_window # Finite(0) /\ n_cmds # 0)) =>
             /\ pc' = "end"
             /\ logger' = logger /\ model' = model /\ scheduler' = scheduler]_vars

\* A finished run of three commands with submit_window = 0 and fault_mode RESET:
\* two lines, no reset
C38_Witness ==
    /\ pc = "done" /\ n_cmds = 3 /\ config.submit_window = Finite(0)
    /\ config.fault_mode = "RESET" /\ config.policy = "BATCHED"
    /\ Len(logger.buffer) = 2
    /\ ~model.had_reset
====
